---- MODULE Spec2Model ----
(***************************************************************************)
(* Verification model of the wormhole-explorer ingestion layer.            *)
(*                                                                         *)
(*  - the SQS queue consumer of parser/queue/vaa_sqs.go (SQS.Consume and   *)
(*    sqsConsumerMessage), with the source queue, the clock and the        *)
(*    workers as its environment;                                          *)
(*  - the rate-limited decorator RateLimitedNearJsonRPCBlockRepository;    *)
(*  - the polling use case GetEvmTransactions.execute;                     *)
(*  - getBlocks, getBlock, getTransactionReceipt and getFilteredLogs of    *)
(*    EvmJsonRPCBlockRepository;                                           *)
(*  - getBlock of Web3SolanaSlotRepository over its pool of providers.     *)
(*                                                                         *)
(* Each component has its own variables and its own specification; a       *)
(* specification keeps the variables of the other components fixed.        *)
(***************************************************************************)
EXTENDS Integers, Sequences, FiniteSets, TLC

(***************************************************************************)
(* Bounds of the model.                                                    *)
(***************************************************************************)
MaxBatch == 2
MaxFetches == 2
MaxTime == 2
MaxChSize == 1
VisibilityTimeout == 1
MaxCalls == 2
NumCallers == 2
Threshold == 2
CoolDown == 1
MaxBTime == 2
MaxInvocations == 4
MaxBlock == 3
MaxBlockNumbers == 2
MaxHashes == 25
MaxLogs == 2
NumPollers == 2
NumProviders == 2
MaxSlot == 1

(***************************************************************************)
(* Program constants.                                                      *)
(***************************************************************************)
DefaultChSize == 10
UnavailableCode == 6969
BatchSize == 10

(***************************************************************************)
(* ----------------------- Queue consumer ------------------------------- *)
(***************************************************************************)
VARIABLES
    srcQueue,    \* receipt handles handed out for messages still in the queue
    queueRest,   \* number of messages of the queue with no handle handed out
    chSize,      \* SQS.chSize
    ch,          \* SQS.ch, the buffered output channel
    wg,          \* SQS.wg, the WaitGroup counter
    metrics,     \* the counters behind metrics.Metrics
    pc,          \* position of the goroutine started by Consume
    messages,    \* the batch returned by the last GetMessages
    idx,         \* position of the range loop in messages
    expiredAt,   \* the expiry computed for the batch
    sending,     \* the message the goroutine is sending on ch
    now,         \* the wall clock
    nFetch,      \* number of GetMessages calls made so far
    fetchedAt,   \* the time the last GetMessages returned at
    held,        \* messages workers received and have not settled
    settled,     \* messages of the batch workers called Done()/Failed() on
    calls,       \* per forwarded message of the batch: Done()/Failed() calls
    delCalls,    \* per receipt handle of the batch: DeleteMessage calls
    misused,     \* some message was settled more than once
    closed,      \* close(q.ch) has been called
    cancelled    \* the number of GetMessages calls made when the context
                 \* passed to Consume was cancelled, if it has been

qVars == <<srcQueue, queueRest, chSize, ch, wg, metrics, pc, messages, idx,
           expiredAt, sending, now, nFetch, fetchedAt, held, settled, calls,
           delCalls, misused, closed, cancelled>>

(***************************************************************************)
(* The variables of the rate-limited decorator.                            *)
(***************************************************************************)
VARIABLES
    bState,      \* the breaker: "closed", "open" or "halfOpen"
    bFailures,   \* consecutive delegate failures counted by the breaker
    bOpenedAt,   \* the time the breaker opened at
    bNow,        \* the clock of the decorator
    bInflight,   \* the calls that are inside the delegate
    bOutcome,    \* per caller: how its last call ended
    bInvoked,    \* number of delegate invocations so far
    bTrial       \* the caller of the trial call, when half-open

bVars == <<bState, bFailures, bOpenedAt, bNow, bInflight, bOutcome, bInvoked,
           bTrial>>

(***************************************************************************)
(* The variables of GetEvmTransactions.execute.                            *)
(***************************************************************************)
VARIABLES
    eRange,      \* the range argument: fromBlock and toBlock
    eOpts,       \* the opts argument: addresses and topics
    ePc,         \* position of execute
    eBlock,      \* the loop variable block
    eEvmBlock,   \* evmBlock, the block returned by getBlock
    eByAddress,  \* transactionsByAddressConfigured
    eResult,     \* populatedTransactions
    eCalls,      \* the calls made on blockRepo, in order
    eReceipts,   \* receiptTransactions, as last returned by blockRepo
    eFailed      \* a call made on blockRepo has rejected

eVars == <<eRange, eOpts, ePc, eBlock, eEvmBlock, eByAddress, eResult, eCalls,
           eReceipts, eFailed>>

(***************************************************************************)
(* The variables of EvmJsonRPCBlockRepository.                             *)
(***************************************************************************)
VARIABLES
    rPc,         \* position of the repository call
    rCall,       \* the method called and its argument
    rBatches,    \* getTransactionReceipt: the batches still to be sent
    rReqs,       \* reqs, the request array of the pending post
    rId,         \* getTransactionReceipt: id, the next request id
    rPosts,      \* the request arrays handed to httpClient.post, in order
    rCombined,   \* getTransactionReceipt: combinedResults
    rResults,    \* results, as httpClient.post last resolved to
    rReturn,     \* the value the call has returned
    rNow,        \* Date.now() when the response was mapped
    rError       \* the error the call has thrown

rVars == <<rPc, rCall, rBatches, rReqs, rId, rPosts, rCombined, rResults,
           rReturn, rNow, rError>>

(***************************************************************************)
(* The variables of Web3SolanaSlotRepository, per caller of getBlock.       *)
(***************************************************************************)
VARIABLES
    sPc,         \* position of the caller's getBlock
    sArgs,       \* slot and finality the caller passed
    sProvider,   \* provider, the handle this.pool.get() returned to the call
    sRequest,    \* the arguments of provider.getBlock
    sOutcome,    \* what the promise of provider.getBlock settled with
    sReturn,     \* what the promise getBlock returned settled with
    sOffline     \* per provider: the setProviderOffline calls made on it

sVars == <<sPc, sArgs, sProvider, sRequest, sOutcome, sReturn, sOffline>>

\* The variables a component leaves alone: those of the other components.
\* The goroutine of Consume and the workers also leave alone what only the
\* owner of the consumer writes: the closing of the channel and the context.
notQ == <<bVars, eVars, rVars, sVars, closed, cancelled>>
notB == <<qVars, eVars, rVars, sVars>>
notE == <<qVars, bVars, rVars, sVars>>
notR == <<qVars, bVars, eVars, sVars>>
notS == <<qVars, bVars, eVars, rVars>>

\* What a message body decodes to: an envelope that does not decode, an
\* envelope whose inner message does not decode, an event the filter
\* rejects and an event the filter accepts.
Bodies == {"badEnvelope", "badInner", "skip", "keep"}

\* The receipt handle of the p-th message of the b-th GetMessages call: the
\* queue service hands out a new handle with every receive.
Handle(b, p) == <<b, p>>

NoHandle == <<0, 0>>

\* A sqsConsumerMessage, with its fields id, data and expiredAt.
NoMsg == [id |-> NoHandle, data |-> "", expiredAt |-> 0]

\* The GetMessages call a forwarded message came from and its position in
\* that batch.
BatchOf(i) == i.id[1]
PosOf(i) == i.id[2]

\* json.Unmarshal of the body into sqsEvent.
UnmarshalSqsEvent(b) == b # "badEnvelope"

\* json.Unmarshal of sqsEvent.Message into VaaEvent.
UnmarshalVaaEvent(b) == b # "badInner"

\* The caller-supplied filter predicate: true means skip the event.
filterConsume(b) == b = "skip"

Min(a, b) == IF a < b THEN a ELSE b

Range(s) == {s[i] : i \in 1..Len(s)}

\* The batches GetMessages can return when n messages are available: up to
\* MaxBatch messages, each with its body.
Batches(n) ==
    UNION {[1..k -> Bodies] : k \in 0..Min(MaxBatch, n)}

WithChannelSize == 1..MaxChSize

\* NewVAASQS, with or without the WithChannelSize option.
NewVAASQS(size) ==
    /\ chSize = size
    /\ ch = <<>>
    /\ wg = 0
    /\ metrics = [consumed |-> 0, unfiltered |-> 0]

QInit ==
    /\ \E size \in WithChannelSize \cup {DefaultChSize} : NewVAASQS(size)
    /\ srcQueue = {}
    /\ queueRest = MaxBatch
    /\ pc = "get"
    /\ messages = <<>>
    /\ idx = 1
    /\ expiredAt = 0
    /\ sending = NoMsg
    /\ now = 0
    /\ nFetch = 0
    /\ fetchedAt = 0
    /\ held = {}
    /\ settled = {}
    /\ calls = <<>>
    /\ delCalls = <<>>
    /\ misused = FALSE
    /\ closed = FALSE
    /\ cancelled = {}

\* sqs.Consumer.DeleteMessage: the queue service removes the message, or the
\* call fails and the message stays in the queue.
DeleteMessage(q, handle, err) == IF err THEN q ELSE q \ {handle}

\* The record of one more DeleteMessage call for a handle.
Deleting(handle) == [delCalls EXCEPT ![handle] = @ + 1]

\* The range loop moves to the next message of the batch, or reaches
\* q.wg.Wait() when the batch is exhausted.
NextPc(i) == IF i > Len(messages) THEN "wait" ELSE "loop"

\* An error branch that returns from the goroutine.
GetMessagesError_Returns ==
    /\ pc = "get"
    /\ nFetch < MaxFetches
    /\ nFetch' = nFetch + 1
    /\ pc' = "return"
    /\ UNCHANGED <<notQ, srcQueue, queueRest, chSize, ch, wg, metrics, messages,
                   idx, expiredAt, sending, now, fetchedAt, held, settled,
                   calls, delCalls, misused>>

\* q.consumer.GetMessages returns an error: log and continue.
GetMessagesError ==
    /\ pc = "get"
    /\ nFetch < MaxFetches
    /\ nFetch' = nFetch + 1
    /\ UNCHANGED <<notQ, srcQueue, queueRest, chSize, ch, wg, metrics, pc, messages,
                   idx, expiredAt, sending, now, fetchedAt, held, settled,
                   calls, delCalls, misused>>

\* An expiry that leaves out the visibility timeout.
Expiry_NoTimeout(t) == t

\* expiredAt := time.Now().Add(q.consumer.GetVisibilityTimeout())
Expiry(t) == t + VisibilityTimeout

\* q.consumer.GetMessages returns a batch, each message with a new receipt
\* handle; the expiry of the batch is computed.
GetMessages ==
    /\ pc = "get"
    /\ nFetch < MaxFetches
    /\ \E batch \in Batches(queueRest) :
          LET handles == {Handle(nFetch + 1, p) : p \in 1..Len(batch)} IN
          /\ messages' = batch
          /\ queueRest' = queueRest - Len(batch)
          /\ srcQueue' = srcQueue \cup handles
          /\ delCalls' = [h \in DOMAIN delCalls \cup handles |->
                             IF h \in DOMAIN delCalls THEN delCalls[h] ELSE 0]
          /\ pc' = IF batch = <<>> THEN "wait" ELSE "loop"
    /\ idx' = 1
    /\ nFetch' = nFetch + 1
    /\ fetchedAt' = now
    /\ expiredAt' = Expiry(now)
    /\ UNCHANGED <<notQ, chSize, ch, wg, metrics, sending, now, held, settled,
                   calls, misused>>

\* Both json.Unmarshal calls of the loop body succeed.
Decodes(b) == UnmarshalSqsEvent(b) /\ UnmarshalVaaEvent(b)

\* A decode failure that counts the message as consumed.
DecodeError_CountsConsumed ==
    /\ pc = "loop"
    /\ ~Decodes(messages[idx])
    /\ metrics' = [metrics EXCEPT !.consumed = @ + 1]
    /\ idx' = idx + 1
    /\ pc' = NextPc(idx + 1)
    /\ UNCHANGED <<notQ, srcQueue, queueRest, chSize, ch, wg, messages,
                   expiredAt, sending, now, nFetch, fetchedAt, held, settled,
                   calls, delCalls, misused>>

\* One of the two json.Unmarshal calls fails: log and continue.
DecodeError ==
    /\ pc = "loop"
    /\ ~Decodes(messages[idx])
    /\ idx' = idx + 1
    /\ pc' = NextPc(idx + 1)
    /\ UNCHANGED <<notQ, srcQueue, queueRest, chSize, ch, wg, metrics, messages,
                   expiredAt, sending, now, nFetch, fetchedAt, held, settled,
                   calls, delCalls, misused>>

\* q.metrics.IncVaaConsumedQueue
IncVaaConsumedQueue(mt) == [mt EXCEPT !.consumed = @ + 1]

\* q.metrics.IncVaaUnfiltered
IncVaaUnfiltered(mt) == [mt EXCEPT !.unfiltered = @ + 1]

\* The sqsConsumerMessage built for messages[idx].
NewMessage ==
    [id |-> Handle(nFetch, idx), data |-> messages[idx],
     expiredAt |-> expiredAt]

\* The bookkeeping entry of a message that has just been forwarded.
NewCall(i) == [msg |-> i, done |-> 0, failed |-> 0, late |-> FALSE]

\* A filter branch without its continue: the rejected message is deleted
\* and then forwarded like an accepted one.
Filtered_NoContinue ==
    /\ pc = "loop"
    /\ Decodes(messages[idx])
    /\ filterConsume(messages[idx])
    /\ metrics' = IncVaaUnfiltered(IncVaaConsumedQueue(metrics))
    /\ \E err \in BOOLEAN :
          srcQueue' = DeleteMessage(srcQueue, Handle(nFetch, idx), err)
    /\ delCalls' = Deleting(Handle(nFetch, idx))
    /\ wg' = wg + 1
    /\ sending' = NewMessage
    /\ calls' = Append(calls, NewCall(NewMessage))
    /\ pc' = "send"
    /\ UNCHANGED <<notQ, queueRest, chSize, ch, messages, idx, expiredAt, now,
                   nFetch, fetchedAt, held, settled, misused>>

\* A filter branch that counts the rejected message as unfiltered.
Filtered_IncUnfiltered ==
    /\ pc = "loop"
    /\ Decodes(messages[idx])
    /\ filterConsume(messages[idx])
    /\ metrics' = IncVaaUnfiltered(IncVaaConsumedQueue(metrics))
    /\ \E err \in BOOLEAN :
          srcQueue' = DeleteMessage(srcQueue, Handle(nFetch, idx), err)
    /\ delCalls' = Deleting(Handle(nFetch, idx))
    /\ idx' = idx + 1
    /\ pc' = NextPc(idx + 1)
    /\ UNCHANGED <<notQ, queueRest, chSize, ch, wg, messages, expiredAt, sending,
                   now, nFetch, fetchedAt, held, settled, calls, misused>>

\* The filter rejects the event: the message is deleted from the queue and
\* the loop continues.
Filtered ==
    /\ pc = "loop"
    /\ Decodes(messages[idx])
    /\ filterConsume(messages[idx])
    /\ metrics' = IncVaaConsumedQueue(metrics)
    /\ \E err \in BOOLEAN :
          srcQueue' = DeleteMessage(srcQueue, Handle(nFetch, idx), err)
    /\ delCalls' = Deleting(Handle(nFetch, idx))
    /\ idx' = idx + 1
    /\ pc' = NextPc(idx + 1)
    /\ UNCHANGED <<notQ, queueRest, chSize, ch, wg, messages, expiredAt, sending,
                   now, nFetch, fetchedAt, held, settled, calls, misused>>

\* The filter accepts the event: q.wg.Add(1), and the goroutine reaches the
\* send on q.ch.
Accepted ==
    /\ pc = "loop"
    /\ Decodes(messages[idx])
    /\ ~filterConsume(messages[idx])
    /\ metrics' = IncVaaUnfiltered(IncVaaConsumedQueue(metrics))
    /\ wg' = wg + 1
    /\ sending' = NewMessage
    /\ calls' = Append(calls, NewCall(NewMessage))
    /\ pc' = "send"
    /\ UNCHANGED <<notQ, srcQueue, queueRest, chSize, ch, messages, idx, expiredAt,
                   now, nFetch, fetchedAt, held, settled, delCalls, misused>>

\* A send that never blocks.
CanSend_Unbounded(c, size) == TRUE

\* A send on the buffered channel proceeds when the buffer has room.
CanSend(c, size) == Len(c) < size

\* q.ch <- &sqsConsumerMessage{...} on the open channel.
Send ==
    /\ pc = "send"
    /\ ~closed
    /\ CanSend(ch, chSize)
    /\ ch' = Append(ch, sending)
    /\ sending' = NoMsg
    /\ idx' = idx + 1
    /\ pc' = NextPc(idx + 1)
    /\ UNCHANGED <<notQ, srcQueue, queueRest, chSize, wg, metrics, messages,
                   expiredAt, now, nFetch, fetchedAt, held, settled, calls,
                   delCalls, misused>>

\* A barrier that does not wait for the counter.
WaitReturns_NoWait(w) == TRUE

\* q.wg.Wait() returns when the counter is zero.
WaitReturns(w) == w = 0

\* The receipt handles of the messages workers still have to settle.
InFlight == {i.id : i \in held \cup Range(ch)}

\* The barrier after the range loop: q.wg.Wait(), then the next iteration of
\* the for loop.  The batch goes out of scope; its messages that were not
\* deleted are again plain messages of the queue.
Wait ==
    /\ pc = "wait"
    /\ WaitReturns(wg)
    /\ pc' = "get"
    /\ messages' = <<>>
    /\ idx' = 1
    /\ srcQueue' = srcQueue \cap InFlight
    /\ queueRest' = queueRest + Cardinality(srcQueue \ InFlight)
    /\ calls' = SelectSeq(calls, LAMBDA c : c.msg.id \in InFlight)
    /\ delCalls' = [h \in DOMAIN delCalls \cap InFlight |-> delCalls[h]]
    /\ settled' = {}
    /\ UNCHANGED <<notQ, chSize, ch, wg, metrics, expiredAt, sending, now, nFetch,
                   fetchedAt, held, misused>>

\* A worker receives the next message from the channel Consume returned.
Receive ==
    /\ pc # "panic"
    /\ ch # <<>>
    /\ ch' = Tail(ch)
    /\ held' = held \cup {Head(ch)}
    /\ UNCHANGED <<notQ, srcQueue, queueRest, chSize, wg, metrics, pc, messages,
                   idx, expiredAt, sending, now, nFetch, fetchedAt, settled,
                   calls, delCalls, misused>>

\* sqsConsumerMessage.IsExpired: m.expiredAt.Before(time.Now())
IsExpired(i) == i.expiredAt < now

\* The entry of calls that belongs to the forwarded message i.
CallOf(i) == CHOOSE k \in 1..Len(calls) : calls[k].msg = i

\* A release that leaves the counter as it is.
WgDone_NoRelease(w) == w

\* A release that decrements the counter twice.
WgDone_Twice(w) == w - 2

\* sync.WaitGroup.Done: the counter is decremented; a negative counter
\* panics.
WgDone(w) == w - 1

PcAfterRelease(w) == IF w < 0 THEN "panic" ELSE pc

\* A Done() that returns when DeleteMessage fails, without releasing the
\* counter.
Done_ReturnOnError(i) ==
    /\ pc # "panic"
    /\ \E err \in BOOLEAN :
          /\ srcQueue' = DeleteMessage(srcQueue, i.id, err)
          /\ wg' = IF err THEN wg ELSE WgDone(wg)
          /\ pc' = IF err THEN pc ELSE PcAfterRelease(WgDone(wg))
    /\ delCalls' = Deleting(i.id)
    /\ calls' = [calls EXCEPT ![CallOf(i)].done = @ + 1,
                              ![CallOf(i)].late = IsExpired(i)]
    /\ misused' = (misused \/ i \in settled)
    /\ held' = held \ {i}
    /\ settled' = settled \cup {i}
    /\ UNCHANGED <<notQ, queueRest, chSize, ch, metrics, messages, idx, expiredAt,
                   sending, now, nFetch, fetchedAt>>

\* sqsConsumerMessage.Done
Done(i) ==
    /\ pc # "panic"
    /\ \E err \in BOOLEAN : srcQueue' = DeleteMessage(srcQueue, i.id, err)
    /\ delCalls' = Deleting(i.id)
    /\ calls' = [calls EXCEPT ![CallOf(i)].done = @ + 1,
                              ![CallOf(i)].late = IsExpired(i)]
    /\ wg' = WgDone(wg)
    /\ pc' = PcAfterRelease(WgDone(wg))
    /\ misused' = (misused \/ i \in settled)
    /\ held' = held \ {i}
    /\ settled' = settled \cup {i}
    /\ UNCHANGED <<notQ, queueRest, chSize, ch, metrics, messages, idx, expiredAt,
                   sending, now, nFetch, fetchedAt>>

\* A Failed() that deletes the message like Done().
Failed_Deletes(i) ==
    /\ pc # "panic"
    /\ calls' = [calls EXCEPT ![CallOf(i)].failed = @ + 1,
                              ![CallOf(i)].late = IsExpired(i)]
    /\ srcQueue' = DeleteMessage(srcQueue, i.id, FALSE)
    /\ delCalls' = Deleting(i.id)
    /\ wg' = WgDone(wg)
    /\ pc' = PcAfterRelease(WgDone(wg))
    /\ misused' = (misused \/ i \in settled)
    /\ held' = held \ {i}
    /\ settled' = settled \cup {i}
    /\ UNCHANGED <<notQ, queueRest, chSize, ch, metrics, messages, idx, expiredAt,
                   sending, now, nFetch, fetchedAt>>

\* sqsConsumerMessage.Failed
Failed(i) ==
    /\ pc # "panic"
    /\ calls' = [calls EXCEPT ![CallOf(i)].failed = @ + 1,
                              ![CallOf(i)].late = IsExpired(i)]
    /\ wg' = WgDone(wg)
    /\ pc' = PcAfterRelease(WgDone(wg))
    /\ misused' = (misused \/ i \in settled)
    /\ held' = held \ {i}
    /\ settled' = settled \cup {i}
    /\ UNCHANGED <<notQ, srcQueue, queueRest, chSize, ch, metrics, messages, idx,
                   expiredAt, sending, now, nFetch, fetchedAt, delCalls>>

\* Time passes.
Tick ==
    /\ pc # "panic"
    /\ now < MaxTime
    /\ now' = now + 1
    /\ UNCHANGED <<notQ, srcQueue, queueRest, chSize, ch, wg, metrics, pc, messages,
                   idx, expiredAt, sending, nFetch, fetchedAt, held, settled,
                   calls, delCalls, misused>>

\* The goroutine started by Consume.
Consume ==
    \/ GetMessagesError
    \/ GetMessages
    \/ DecodeError
    \/ Filtered
    \/ Accepted
    \/ Send
    \/ Wait

\* Workers that settle each message they receive once.
Worker ==
    \/ Receive
    \/ \E i \in held : Done(i)
    \/ \E i \in held : Failed(i)

NumCalls(i) == calls[CallOf(i)].done + calls[CallOf(i)].failed

\* The messages of the batch a worker may settle again.
Again == {i \in settled : NumCalls(i) < MaxCalls}

\* Workers that call Done() or Failed() again on a message they have
\* already settled.
WorkerAgain ==
    \/ \E i \in Again : Done(i)
    \/ \E i \in Again : Failed(i)

QNext == Consume \/ Worker \/ Tick

\* Time plays no part in Done() and Failed(): the clock stands still here.
QNextMisuse == Consume \/ Worker \/ WorkerAgain

\* q.ch <- &sqsConsumerMessage{...} on the closed channel panics, whether
\* the goroutine reaches the send after close(q.ch) or is blocked in it.
SendOnClosed ==
    /\ pc = "send"
    /\ closed
    /\ pc' = "panic"
    /\ UNCHANGED <<notQ, srcQueue, queueRest, chSize, ch, wg, metrics, messages,
                   idx, expiredAt, sending, now, nFetch, fetchedAt, held,
                   settled, calls, delCalls, misused>>

\* A Close that waits for the messages in flight.
Close_WaitsInFlight ==
    /\ pc # "panic"
    /\ ~closed
    /\ wg = 0
    /\ closed' = TRUE
    /\ UNCHANGED <<bVars, eVars, rVars, sVars, srcQueue, queueRest, chSize, ch, wg,
                   metrics, pc, messages, idx, expiredAt, sending, now, nFetch,
                   fetchedAt, held, settled, calls, delCalls, misused, cancelled>>

\* SQS.Close, called once: close(q.ch) and nothing else.
Close ==
    /\ pc # "panic"
    /\ ~closed
    /\ closed' = TRUE
    /\ UNCHANGED <<bVars, eVars, rVars, sVars, srcQueue, queueRest, chSize, ch, wg,
                   metrics, pc, messages, idx, expiredAt, sending, now, nFetch,
                   fetchedAt, held, settled, calls, delCalls, misused, cancelled>>

\* The caller of Consume cancels the context it passed.  Consume hands the
\* context to GetMessages and to the messages it builds and reads it
\* nowhere; GetMessages may go on returning batches or errors.
Cancel ==
    /\ pc # "panic"
    /\ cancelled = {}
    /\ cancelled' = {nFetch}
    /\ UNCHANGED <<bVars, eVars, rVars, sVars, srcQueue, queueRest, chSize, ch, wg,
                   metrics, pc, messages, idx, expiredAt, sending, now, nFetch,
                   fetchedAt, held, settled, calls, delCalls, misused, closed>>

\* The consumer before Consume is called, as the other components see it.
QIdle == QInit /\ chSize = DefaultChSize

(***************************************************************************)
(* --------------------- Rate-limited decorator ------------------------- *)
(*                                                                         *)
(* RateLimitedNearJsonRPCBlockRepository forwards each operation to        *)
(* this.breaker.fn(() => this.delegate.op(...)).execute().  The breaker    *)
(* belongs to the base class RateLimitedRPCRepository; its states and      *)
(* transitions are those of the specification's section 4.2.  A retry of   *)
(* a failed call is another pass through the breaker.                      *)
(***************************************************************************)
Callers == 1..NumCallers

NoCaller == 0

NoOperation == "none"

BInit ==
    /\ bState = "closed"
    /\ bFailures = 0
    /\ bOpenedAt = 0
    /\ bNow = 0
    /\ bInflight = [c \in Callers |-> NoOperation]
    /\ bOutcome = [c \in Callers |-> "none"]
    /\ bInvoked = 0
    /\ bTrial = NoCaller

\* The cool-down of an open breaker has elapsed.
CooledDown == bNow - bOpenedAt >= CoolDown

\* The breaker lets a call through: always when closed, as the one trial
\* when open and cooled down; never while the trial is in flight.
Admits == bState = "closed" \/ (bState = "open" /\ CooledDown)

\* The breaker lets the call of caller c through.
Admit(c) ==
    /\ bState' = IF bState = "open" THEN "halfOpen" ELSE bState
    /\ bTrial' = IF bState = "open" THEN c ELSE bTrial
    /\ bOutcome' = [bOutcome EXCEPT ![c] = "none"]
    /\ UNCHANGED <<bFailures, bOpenedAt, bNow>>

\* The breaker fails the call of caller c with the breaker-open error.
Reject(c) ==
    /\ bOutcome' = [bOutcome EXCEPT ![c] = "breakerOpen"]
    /\ UNCHANGED <<bState, bTrial, bFailures, bOpenedAt, bNow>>

\* The arrow function handed to breaker.fn: the operation of the delegate.
Delegate(c, op) ==
    /\ bInflight' = [bInflight EXCEPT ![c] = op]
    /\ bInvoked' = bInvoked + 1

\* breaker.fn(f).execute()
Execute(c, op) ==
    /\ bInflight[c] = NoOperation
    /\ bInvoked < MaxInvocations
    /\ \/ Admits /\ Admit(c) /\ Delegate(c, op)
       \/ ~Admits /\ Reject(c) /\ UNCHANGED <<bInflight, bInvoked>>
    /\ UNCHANGED notB

\* A getBlockHeight that calls the delegate without the breaker.
getBlockHeight_Direct(c) ==
    /\ bInflight[c] = NoOperation
    /\ bInvoked < MaxInvocations
    /\ Delegate(c, "getBlockHeight")
    /\ bOutcome' = [bOutcome EXCEPT ![c] = "none"]
    /\ UNCHANGED <<notB, bState, bTrial, bFailures, bOpenedAt, bNow>>

getBlockHeight(c) == Execute(c, "getBlockHeight")

getTransactions(c) == Execute(c, "getTransactions")

\* The breaker is opened now.
Open ==
    /\ bState' = "open"
    /\ bOpenedAt' = bNow

\* The delegate's promise settles: resolved (ok) or rejected.  The breaker
\* counts the failures of a closed circuit, and decides on the trial's
\* outcome when half-open.
Settle(c, ok) ==
    /\ bInflight[c] # NoOperation
    /\ bInflight' = [bInflight EXCEPT ![c] = NoOperation]
    /\ bOutcome' = [bOutcome EXCEPT ![c] = IF ok THEN "ok" ELSE "error"]
    /\ IF bTrial = c
       THEN /\ bTrial' = NoCaller
            /\ IF ok
               THEN /\ bState' = "closed"
                    /\ bFailures' = 0
                    /\ UNCHANGED bOpenedAt
               ELSE /\ Open
                    /\ UNCHANGED bFailures
       ELSE /\ UNCHANGED bTrial
            /\ IF bState = "closed"
               THEN IF ok
                    THEN /\ bFailures' = 0
                         /\ UNCHANGED <<bState, bOpenedAt>>
                    ELSE /\ bFailures' = bFailures + 1
                         /\ IF bFailures + 1 >= Threshold
                            THEN Open
                            ELSE UNCHANGED <<bState, bOpenedAt>>
               ELSE UNCHANGED <<bState, bFailures, bOpenedAt>>
    /\ UNCHANGED <<notB, bNow, bInvoked>>

\* Time passes.
BTick ==
    /\ bNow < MaxBTime
    /\ bNow' = bNow + 1
    /\ UNCHANGED <<notB, bState, bFailures, bOpenedAt, bInflight, bOutcome,
                   bInvoked, bTrial>>

BNext ==
    \/ \E c \in Callers : getBlockHeight(c)
    \/ \E c \in Callers : getTransactions(c)
    \/ \E c \in Callers, ok \in BOOLEAN : Settle(c, ok)
    \/ BTick

(***************************************************************************)
(* ------------------- GetEvmTransactions.execute ----------------------- *)
(***************************************************************************)
\* An optional value is the set of its values: empty when undefined.
Undefined == {}

Defined(x) == {x}

\* String(x).toLowerCase() on the addresses of the model; String(undefined)
\* is "undefined".
toLowerCase(x) ==
    IF x = Undefined THEN "undefined"
    ELSE IF x = Defined("0xAA") THEN "0xaa"
    ELSE CHOOSE a \in x : TRUE

\* The transactions a block of the chain may hold.
TxToUpper ==
    [hash |-> "hA", from |-> Defined("0xee"), to |-> Defined("0xAA")]

TxFromLower ==
    [hash |-> "hB", from |-> Defined("0xaa"), to |-> Undefined]

TxOther ==
    [hash |-> "hC", from |-> Defined("0xee"), to |-> Defined("0xee")]

ChainTransactions == <<TxToUpper, TxFromLower, TxOther>>

\* The sub-sequence of s at the positions of set P.
RECURSIVE SubSeqAt(_, _, _)
SubSeqAt(s, P, i) ==
    IF i > Len(s) THEN <<>>
    ELSE (IF i \in P THEN <<s[i]>> ELSE <<>>) \o SubSeqAt(s, P, i + 1)

\* EvmBlock as blockRepo.getBlock may return it for block number n.
EvmBlocks(n) ==
    [timestamp : {n}, transactions : {Undefined}]
    \cup {[timestamp |-> n,
            transactions |-> Defined(SubSeqAt(ChainTransactions, P, 1))] :
              P \in SUBSET (1..Len(ChainTransactions))}

NoEvmBlock == [timestamp |-> 0, transactions |-> Undefined]

\* ReceiptTransaction
Receipts ==
    { [status |-> "0x1", logs |-> <<>>],
      [status |-> "0x1", logs |-> <<[topics |-> Defined(<<"t1">>)]>>],
      [status |-> "0x0", logs |-> <<[topics |-> Defined(<<"t2">>)],
                                    [topics |-> Undefined]>>] }

\* Record<string, ReceiptTransaction> as blockRepo.getTransactionReceipt may
\* return it for the hashes asked for.
ReceiptRecords(hashNumbers) ==
    UNION {[D -> Receipts] : D \in SUBSET hashNumbers}

\* The range argument.
Ranges == [fromBlock : 1..MaxBlock, toBlock : 1..MaxBlock]

\* The opts argument (GetEvmOpts).
Opts ==
    [addresses : {Defined(<<"0xaa">>), Defined(<<"0xAA">>), Undefined},
     topics : {Defined(<<"t1">>), Undefined},
     chain : {"ethereum"}]

EInit ==
    /\ ePc = "idle"
    /\ eRange = [fromBlock |-> 1, toBlock |-> 1]
    /\ eOpts = [addresses |-> Undefined, topics |-> Undefined,
                chain |-> "ethereum"]
    /\ eBlock = 0
    /\ eEvmBlock = NoEvmBlock
    /\ eByAddress = <<>>
    /\ eResult = <<>>
    /\ eCalls = <<>>
    /\ eReceipts = <<>>
    /\ eFailed = FALSE

\* Array.prototype.includes behind the optional chaining ?. : an undefined
\* array includes nothing.
includes(array, x) == \E a \in array : x \in Range(a)

\* The predicate of transactions.filter in execute.
ByAddressConfigured(opts, transaction) ==
    \/ includes(opts.addresses, toLowerCase(transaction.to))
    \/ includes(opts.addresses, toLowerCase(transaction.from))

\* Array.prototype.filter
RECURSIVE filter(_, _)
filter(array, keep) ==
    IF array = <<>> THEN <<>>
    ELSE (IF Head(array) \in keep THEN <<Head(array)>> ELSE <<>>)
         \o filter(Tail(array), keep)

\* A filterTransactions that keeps every transaction whose receipt has a log,
\* whatever the topics of the log.
filterTransactions_AnyLog(opts, transactionsByAddressConfigured, receiptTransactions) ==
    LET logsOf(transaction) ==
            IF transaction.hash \in DOMAIN receiptTransactions
            THEN receiptTransactions[transaction.hash].logs
            ELSE <<>>
    IN  filter(transactionsByAddressConfigured,
               {t \in Range(transactionsByAddressConfigured) : logsOf(t) # <<>>})

\* GetEvmTransactions.filterTransactions
filterTransactions(opts, transactionsByAddressConfigured, receiptTransactions) ==
    LET optsTopics == opts.topics
        logsOf(transaction) ==
            IF transaction.hash \in DOMAIN receiptTransactions
            THEN receiptTransactions[transaction.hash].logs
            ELSE <<>>
        found(log) ==
            \E topics \in optsTopics : \E topic \in Range(topics) :
                includes(log.topics, topic) /\ topic # ""
        some(transaction) ==
            \E k \in DOMAIN logsOf(transaction) : found(logsOf(transaction)[k])
    IN  filter(transactionsByAddressConfigured,
               {t \in Range(transactionsByAddressConfigured) : some(t)})

\* GetEvmTransactions.populateTransaction: the transactions it pushes.
populateTransaction(opts, evmBlock, receiptTransactions, transactions) ==
    [k \in DOMAIN transactions |->
        [hash |-> transactions[k].hash,
         from |-> transactions[k].from,
         to |-> transactions[k].to,
         status |-> receiptTransactions[transactions[k].hash].status,
         timestamp |-> evmBlock.timestamp,
         chain |-> opts.chain,
         logs |-> receiptTransactions[transactions[k].hash].logs]]

\* block++ and the test of the for loop.
NextBlock ==
    /\ eBlock' = eBlock + 1
    /\ ePc' = IF eBlock + 1 <= eRange.toBlock THEN "getBlock" ELSE "done"

\* An execute whose loop body runs before the range is looked at.
execute_NoRangeCheck ==
    /\ ePc = "idle"
    /\ \E range \in Ranges, opts \in Opts :
          /\ eRange' = range
          /\ eOpts' = opts
          /\ ePc' = "getBlock"
          /\ eBlock' = range.fromBlock
    /\ eResult' = <<>>
    /\ eCalls' = <<>>
    /\ UNCHANGED <<notE, eEvmBlock, eByAddress, eReceipts, eFailed>>

\* execute is called: the range check, and the entry of the loop.
execute ==
    /\ ePc = "idle"
    /\ \E range \in Ranges, opts \in Opts :
          /\ eRange' = range
          /\ eOpts' = opts
          /\ IF range.fromBlock > range.toBlock
             THEN /\ ePc' = "done"
                  /\ UNCHANGED eBlock
             ELSE /\ ePc' = "getBlock"
                  /\ eBlock' = range.fromBlock
    /\ eResult' = <<>>
    /\ eCalls' = <<>>
    /\ UNCHANGED <<notE, eEvmBlock, eByAddress, eReceipts, eFailed>>

\* A getBlock call that asks for a light block, without its transactions.
GetBlockCall_NoTransactions ==
    [op |-> "getBlock", block |-> eBlock, arg |-> FALSE]

\* The call of blockRepo.getBlock as blockRepo sees it.
GetBlockCall == [op |-> "getBlock", block |-> eBlock, arg |-> TRUE]

\* await blockRepo.getBlock resolves; the transactions are filtered by
\* address.
getBlock ==
    /\ ePc = "getBlock"
    /\ \E evmBlock \in EvmBlocks(eBlock) :
          LET transactions ==
                  IF evmBlock.transactions = Undefined THEN <<>>
                  ELSE CHOOSE t \in evmBlock.transactions : TRUE
              transactionsByAddressConfigured ==
                  filter(transactions,
                         {t \in Range(transactions) : ByAddressConfigured(eOpts, t)})
          IN  /\ eEvmBlock' = evmBlock
              /\ eByAddress' = transactionsByAddressConfigured
              /\ IF Len(transactionsByAddressConfigured) > 0
                 THEN /\ ePc' = "getTransactionReceipt"
                      /\ UNCHANGED eBlock
                 ELSE NextBlock
    /\ eCalls' = Append(eCalls, GetBlockCall)
    /\ UNCHANGED <<notE, eRange, eOpts, eResult, eReceipts, eFailed>>

\* An execute that catches the rejection of getBlock and goes on with the
\* next block.
getBlockRejects_Continue ==
    /\ ePc = "getBlock"
    /\ NextBlock
    /\ eFailed' = TRUE
    /\ eCalls' = Append(eCalls, GetBlockCall)
    /\ UNCHANGED <<notE, eRange, eOpts, eEvmBlock, eByAddress, eResult,
                   eReceipts>>

\* await blockRepo.getBlock rejects: execute rejects.
getBlockRejects ==
    /\ ePc = "getBlock"
    /\ ePc' = "error"
    /\ eFailed' = TRUE
    /\ eCalls' = Append(eCalls, GetBlockCall)
    /\ UNCHANGED <<notE, eRange, eOpts, eBlock, eEvmBlock, eByAddress, eResult,
                   eReceipts>>

hashNumbers == {eByAddress[k].hash : k \in DOMAIN eByAddress}

\* The call of blockRepo.getTransactionReceipt as blockRepo sees it.
GetTransactionReceiptCall ==
    [op |-> "getTransactionReceipt", block |-> eBlock, arg |-> hashNumbers]

\* await blockRepo.getTransactionReceipt resolves; the transactions are
\* filtered by topic, populated and pushed.
getTransactionReceipt ==
    /\ ePc = "getTransactionReceipt"
    /\ \E receiptTransactions \in ReceiptRecords(hashNumbers) :
          /\ eReceipts' = receiptTransactions
          /\ eResult' = eResult \o
                populateTransaction(eOpts, eEvmBlock, receiptTransactions,
                    filterTransactions(eOpts, eByAddress, receiptTransactions))
    /\ NextBlock
    /\ eCalls' = Append(eCalls, GetTransactionReceiptCall)
    /\ UNCHANGED <<notE, eRange, eOpts, eEvmBlock, eByAddress, eFailed>>

\* await blockRepo.getTransactionReceipt rejects: execute rejects.
getTransactionReceiptRejects ==
    /\ ePc = "getTransactionReceipt"
    /\ ePc' = "error"
    /\ eFailed' = TRUE
    /\ eCalls' = Append(eCalls, GetTransactionReceiptCall)
    /\ UNCHANGED <<notE, eRange, eOpts, eBlock, eEvmBlock, eByAddress, eResult,
                   eReceipts>>

\* What execute has returned to its caller: populatedTransactions once the
\* loop is over, nothing before that or when it rejects.
Returned == IF ePc = "done" THEN Defined(eResult) ELSE Undefined

ENext ==
    \/ execute
    \/ getBlock
    \/ getBlockRejects
    \/ getTransactionReceipt
    \/ getTransactionReceiptRejects

(***************************************************************************)
(* ------------------- EvmJsonRPCBlockRepository ------------------------ *)
(*                                                                         *)
(* A string is the sequence of its characters, so "" is <<>>.  A string    *)
(* that spells a number is a record of its radix (16 when it starts with   *)
(* the prefix 0x, 10 otherwise) and its digits.                            *)
(***************************************************************************)
RECURSIVE Digits(_, _)
Digits(n, radix) ==
    IF n < radix THEN <<n>>
    ELSE Append(Digits(n \div radix, radix), n % radix)

\* blockNumber.toString()
NumberToString(n) == [radix |-> 10, digits |-> Digits(n, 10)]

\* `${HEXADECIMAL_PREFIX}${blockNumber.toString(16)}`
HexString(n) == [radix |-> 16, digits |-> Digits(n, 16)]

RECURSIVE DigitsValue(_, _)
DigitsValue(digits, radix) ==
    IF digits = <<>> THEN 0
    ELSE DigitsValue(SubSeq(digits, 1, Len(digits) - 1), radix) * radix
         + digits[Len(digits)]

\* BigInt(s) and Number(s) of a string that spells a number.
BigInt(s) == DigitsValue(s.digits, s.radix)

\* The block numbers of the model.
BlockNumbers == 15..(14 + MaxBlockNumbers)

\* A sequence with no element twice: a Set in its insertion order.
IsSet(s) == \A i, j \in DOMAIN s : s[i] = s[j] => i = j

\* The blockNumbers argument of getBlocks.
BlockNumberSets ==
    {s \in UNION {[1..k -> BlockNumbers] : k \in 0..MaxBlockNumbers} : IsSet(s)}

\* Date.now()
Times == {1, 2}

\* The hash and the timestamp of the block with number n on the chain.
BlockHash(n) == <<n>>

BlockTimestamp(n) == n + n

\* The result member of a response: missing, null or a block.
NoResult ==
    [kind |-> "undefined", hash |-> <<>>, number |-> Undefined,
     timestamp |-> Undefined]

NullResult ==
    [kind |-> "null", hash |-> <<>>, number |-> Undefined,
     timestamp |-> Undefined]

BlockResult(hash, number, timestamp) ==
    [kind |-> "object", hash |-> hash, number |-> number,
     timestamp |-> timestamp]

\* The well-formed block the node returns for block number n.
ChainBlock(n) ==
    BlockResult(BlockHash(n), Defined(HexString(n)),
                Defined(HexString(BlockTimestamp(n))))

\* The response with a well-formed block for the request of block n.
WellFormed(n) ==
    [id |-> NumberToString(n), result |-> ChainBlock(n), error |-> Undefined]

\* The responses a node may give to the request of block n.
BlockResponses(n) ==
    { WellFormed(n),
      [id |-> NumberToString(n), result |-> NullResult, error |-> Undefined],
      [id |-> NumberToString(n), result |-> NoResult,
       error |-> Defined([code |-> UnavailableCode])],
      [id |-> NumberToString(n), result |-> ChainBlock(n),
       error |-> Defined([code |-> UnavailableCode])],
      [id |-> NumberToString(n), result |-> NoResult,
       error |-> Defined([code |-> 1])],
      [id |-> NumberToString(n),
       result |-> BlockResult(<<>>, Defined(HexString(n)),
                              Defined(HexString(BlockTimestamp(n)))),
       error |-> Undefined],
      [id |-> NumberToString(n),
       result |-> BlockResult(BlockHash(n), Undefined,
                              Defined(HexString(BlockTimestamp(n)))),
       error |-> Undefined],
      [id |-> NumberToString(n),
       result |-> BlockResult(BlockHash(n), Defined(HexString(n)), Undefined),
       error |-> Undefined] }

\* The results httpClient.post may resolve to for the requests of blocks
\* blockNumbers: nothing, or an array of at most as many elements, each
\* undefined or a response to one of the requests, in any order.
BlocksResults(blockNumbers) ==
    LET elements ==
            {Undefined} \cup
            {Defined(r) : r \in UNION {BlockResponses(n) : n \in Range(blockNumbers)}}
    IN  {Undefined} \cup
        {Defined(a) : a \in UNION {[1..k -> elements] :
                                     k \in 0..Len(blockNumbers)}}

NoCall == [op |-> "none", arg |-> <<>>]

\* The errors a call of the repository throws, by their message; the error
\* httpClient.post rejected with is thrown on as it is.
NoError == "none"

HttpClientError == "HttpClientError"

TypeError == "TypeError"

UnableToParseBlock == "Unable to parse result of eth_getBlockByNumber[chain]"

UnableToParseBlocks == "Unable to parse blocks for eth_getBlockByNumber"

UnableToParseReceipt == "Unable to parse result of eth_getTransactionReceipt[chain]"

UnableToParseReceipts == "Unable to parse result of eth_getTransactionReceipt"

UnableToParseGetBlock == "Unable to parse result of eth_getBlockByNumber"

RInit ==
    /\ rPc = "idle"
    /\ rCall = NoCall
    /\ rBatches = <<>>
    /\ rReqs = <<>>
    /\ rId = 1
    /\ rPosts = <<>>
    /\ rCombined = <<>>
    /\ rResults = Undefined
    /\ rReturn = Undefined
    /\ rNow = 0
    /\ rError = NoError

\* A request of getBlocks whose id is the hexadecimal parameter.
BlockRequest_HexId(blockNumber) ==
    [jsonrpc |-> "2.0",
     id |-> HexString(blockNumber),
     method |-> "eth_getBlockByNumber",
     params |-> [block |-> HexString(blockNumber), full |-> FALSE]]

\* The request getBlocks pushes for a block number.
BlockRequest(blockNumber) ==
    [jsonrpc |-> "2.0",
     id |-> NumberToString(blockNumber),
     method |-> "eth_getBlockByNumber",
     params |-> [block |-> HexString(blockNumber), full |-> FALSE]]

\* A getBlocks that posts its requests whatever the size of blockNumbers.
getBlocks_NoEmptyCheck ==
    /\ rPc = "idle"
    /\ \E blockNumbers \in BlockNumberSets :
          /\ rCall' = [op |-> "getBlocks", arg |-> blockNumbers]
          /\ rReqs' = [k \in DOMAIN blockNumbers |-> BlockRequest(blockNumbers[k])]
          /\ rPosts' = Append(rPosts, rReqs')
          /\ rPc' = "post"
          /\ UNCHANGED rReturn
    /\ UNCHANGED <<notR, rBatches, rId, rCombined, rResults, rNow, rError>>

\* getBlocks is called: the empty check, the requests and httpClient.post.
getBlocks ==
    /\ rPc = "idle"
    /\ \E blockNumbers \in BlockNumberSets :
          /\ rCall' = [op |-> "getBlocks", arg |-> blockNumbers]
          /\ IF Len(blockNumbers) = 0
             THEN /\ rPc' = "done"
                  /\ rReturn' = Defined(<<>>)
                  /\ UNCHANGED <<rReqs, rPosts>>
             ELSE /\ rReqs' = [k \in DOMAIN blockNumbers |->
                                  BlockRequest(blockNumbers[k])]
                  /\ rPosts' = Append(rPosts, rReqs')
                  /\ rPc' = "post"
                  /\ UNCHANGED rReturn
    /\ UNCHANGED <<notR, rBatches, rId, rCombined, rResults, rNow, rError>>

\* The first test of the map callback of getBlocks, with any error code
\* taken for the block-unavailable code.
IsDegraded_AnyError(response) ==
    \/ \E r \in response : r.result.kind = "null"
    \/ \E r \in response : \E e \in r.error : e.code # 0

\* The first test of the map callback of getBlocks: a null result or the
\* error code 6969.
IsDegraded(response) ==
    \/ \E r \in response : r.result.kind = "null"
    \/ \E r \in response : \E e \in r.error :
           e.code # 0 /\ e.code = UnavailableCode

\* The second test of the map callback of getBlocks: a result with hash,
\* number and timestamp.
IsBlock(response) ==
    \E r \in response :
        /\ r.result.kind = "object"
        /\ r.result.hash # <<>>
        /\ r.result.number # Undefined
        /\ r.result.timestamp # Undefined

\* The block the map callback of getBlocks returns for a response.
MapBlock(response, time) ==
    LET r == CHOOSE x \in response : TRUE
    IN  IF IsDegraded(response)
        THEN [hash |-> <<>>, number |-> BigInt(r.id), timestamp |-> time]
        ELSE [hash |-> r.result.hash,
              number |-> BigInt(CHOOSE x \in r.result.number : TRUE),
              timestamp |-> BigInt(CHOOSE x \in r.result.timestamp : TRUE)]

\* A reduce that keeps the first block stored under a hash.
ReduceByHash_KeepsFirst(blocks) ==
    [h \in {blocks[k].hash : k \in DOMAIN blocks} |->
        LET first == CHOOSE k \in DOMAIN blocks :
                         /\ blocks[k].hash = h
                         /\ \A j \in DOMAIN blocks : blocks[j].hash = h => k <= j
        IN  blocks[first]]

\* The reduce of getBlocks: acc[block.hash] = block, in array order.
ReduceByHash(blocks) ==
    [h \in {blocks[k].hash : k \in DOMAIN blocks} |->
        LET last == CHOOSE k \in DOMAIN blocks :
                        /\ blocks[k].hash = h
                        /\ \A j \in DOMAIN blocks : blocks[j].hash = h => j <= k
        IN  blocks[last]]

\* The map callback of getBlocks throws for some response of the array.
MapThrows(array) ==
    \E k \in DOMAIN array : ~IsDegraded(array[k]) /\ ~IsBlock(array[k])

\* await httpClient.post resolves in getBlocks: the responses are mapped
\* and reduced, or the call throws.
getBlocksResponse ==
    /\ rPc = "post"
    /\ rCall.op = "getBlocks"
    /\ \E results \in BlocksResults(rCall.arg), time \in Times :
          /\ rResults' = results
          /\ rNow' = time
          /\ IF \E array \in results : Len(array) > 0 /\ ~MapThrows(array)
             THEN LET array == CHOOSE a \in results : TRUE
                  IN  /\ rReturn' = Defined(ReduceByHash(
                             [k \in DOMAIN array |-> MapBlock(array[k], time)]))
                      /\ rPc' = "done"
                      /\ UNCHANGED rError
             ELSE /\ rPc' = "error"
                  /\ rError' = IF \E array \in results : Len(array) > 0
                               THEN UnableToParseBlock
                               ELSE UnableToParseBlocks
                  /\ UNCHANGED rReturn
    /\ UNCHANGED <<notR, rCall, rBatches, rReqs, rId, rPosts, rCombined>>

\* await httpClient.post rejects: handleError, then the error is thrown on.
postRejects ==
    /\ rPc = "post"
    /\ rPc' = "error"
    /\ rError' = HttpClientError
    /\ UNCHANGED <<notR, rCall, rBatches, rReqs, rId, rPosts, rCombined,
                   rResults, rReturn, rNow>>

\* The hashNumbers argument of getTransactionReceipt: n transaction hashes,
\* numbered in their insertion order.
HashNumberSets == {[k \in 1..n |-> k] : n \in 0..MaxHashes}

\* The forEach of divideIntoBatches over the items left, with the batch
\* being filled and the batches already pushed.
RECURSIVE ForEachItem(_, _, _, _)
ForEachItem(items, batch, batches, batchSize) ==
    IF items = <<>> THEN [batch |-> batch, batches |-> batches]
    ELSE LET pushed == Append(batch, Head(items))
         IN  IF Len(pushed) = batchSize
             THEN ForEachItem(Tail(items), <<>>, Append(batches, pushed), batchSize)
             ELSE ForEachItem(Tail(items), pushed, batches, batchSize)

\* A divideIntoBatches that forgets the last batch when it is not full.
divideIntoBatches_DropsRemainder(set, batchSize) ==
    ForEachItem(set, <<>>, <<>>, batchSize).batches

\* EvmJsonRPCBlockRepository.divideIntoBatches
divideIntoBatches(set, batchSize) ==
    LET each == ForEachItem(set, <<>>, <<>>, batchSize)
    IN  IF Len(each.batch) > 0 THEN Append(each.batches, each.batch)
        ELSE each.batches

\* The requests getTransactionReceipt pushes for a batch, from request id on.
ReceiptRequests(batch, id) ==
    [k \in DOMAIN batch |->
        [jsonrpc |-> "2.0",
         id |-> id + k - 1,
         method |-> "eth_getTransactionReceipt",
         params |-> <<batch[k]>>]]

\* The result member of a ResultTransactionReceipt.
ReceiptResult(kind, status, transactionHash) ==
    [kind |-> kind, status |-> status, transactionHash |-> transactionHash,
     logs |-> <<>>]

\* The response with the receipt of the transaction with hash h.
ReceiptOf(h) ==
    Defined([result |-> ReceiptResult("object", Defined("0x1"), Defined(h)),
             error |-> Undefined])

\* The responses that cannot be parsed: a null element, a null result, a
\* result without status, a result without transactionHash.
Unparsable(h) ==
    { Undefined,
      Defined([result |-> ReceiptResult("null", Undefined, Undefined),
               error |-> Defined([code |-> 1])]),
      Defined([result |-> ReceiptResult("object", Undefined, Defined(h)),
               error |-> Undefined]),
      Defined([result |-> ReceiptResult("object", Defined("0x1"), Undefined),
               error |-> Undefined]) }

\* The results httpClient.post may resolve to for the requests reqs: nothing;
\* the receipts asked for, in the order of the requests; those receipts with
\* the first or the last replaced by a response that cannot be parsed; or
\* those receipts without the last, or none of them.
ReceiptsResults(reqs) ==
    LET receipts == [k \in DOMAIN reqs |-> ReceiptOf(reqs[k].params[1])]
    IN  {Undefined, Defined(receipts), Defined(<<>>),
         Defined(SubSeq(receipts, 1, Len(receipts) - 1))}
        \cup {Defined([receipts EXCEPT ![p] = bad]) :
                p \in {1, Len(reqs)}, bad \in UNION {Unparsable(reqs[k].params[1]) :
                                                     k \in {1, Len(reqs)}}}

\* A getTransactionReceipt that returns the empty mapping for no hashes, as
\* getBlocks does for no block numbers.
repoGetTransactionReceipt_EmptyMapping ==
    /\ rPc = "idle"
    /\ \E hashes \in HashNumberSets :
          LET batches == divideIntoBatches(hashes, BatchSize)
          IN  /\ rCall' = [op |-> "getTransactionReceipt", arg |-> hashes]
              /\ IF batches = <<>>
                 THEN /\ rPc' = "done"
                      /\ rReturn' = Defined(<<>>)
                      /\ UNCHANGED <<rBatches, rReqs, rId, rPosts, rError>>
                 ELSE /\ rReqs' = ReceiptRequests(batches[1], rId)
                      /\ rId' = rId + Len(batches[1])
                      /\ rBatches' = Tail(batches)
                      /\ rPosts' = Append(rPosts, rReqs')
                      /\ rPc' = "post"
                      /\ UNCHANGED <<rError, rReturn>>
    /\ UNCHANGED <<notR, rCombined, rResults, rNow>>

\* getTransactionReceipt is called: the batches, the requests of the first
\* batch and httpClient.post.  With no batch the loop is skipped and the
\* empty combinedResults makes the call throw.
repoGetTransactionReceipt ==
    /\ rPc = "idle"
    /\ \E hashes \in HashNumberSets :
          LET batches == divideIntoBatches(hashes, BatchSize)
          IN  /\ rCall' = [op |-> "getTransactionReceipt", arg |-> hashes]
              /\ IF batches = <<>>
                 THEN /\ rPc' = "error"
                      /\ rError' = UnableToParseReceipts
                      /\ UNCHANGED <<rBatches, rReqs, rId, rPosts>>
                 ELSE /\ rReqs' = ReceiptRequests(batches[1], rId)
                      /\ rId' = rId + Len(batches[1])
                      /\ rBatches' = Tail(batches)
                      /\ rPosts' = Append(rPosts, rReqs')
                      /\ rPc' = "post"
                      /\ UNCHANGED rError
    /\ UNCHANGED <<notR, rCombined, rResults, rReturn, rNow>>

\* The map callback of getTransactionReceipt throws for a response.
ReceiptThrows(response) ==
    \E x \in response :
        x.result.kind # "object"
        \/ x.result.status = Undefined
        \/ x.result.transactionHash = Undefined

\* The receipt the map callback of getTransactionReceipt returns.
MapReceipt(response) ==
    LET x == CHOOSE y \in response : TRUE
    IN  [status |-> CHOOSE v \in x.result.status : TRUE,
         transactionHash |-> CHOOSE v \in x.result.transactionHash : TRUE,
         logs |-> x.result.logs]

\* The reduce of getTransactionReceipt:
\* acc[receiptTransaction.transactionHash] = receiptTransaction.
ReduceByTransactionHash(receipts) ==
    [h \in {receipts[k].transactionHash : k \in DOMAIN receipts} |->
        LET last == CHOOSE k \in DOMAIN receipts :
                        /\ receipts[k].transactionHash = h
                        /\ \A j \in DOMAIN receipts :
                               receipts[j].transactionHash = h => j <= k
        IN  receipts[last]]

\* await httpClient.post resolves in getTransactionReceipt: the results that
\* are not null are pushed onto combinedResults; then the next batch is
\* posted, or after the last batch combinedResults is mapped and reduced.
\* Iterating over missing results throws.
receiptsResponse ==
    /\ rPc = "post"
    /\ rCall.op = "getTransactionReceipt"
    /\ \E results \in ReceiptsResults(rReqs) :
          /\ rResults' = results
          /\ IF results = Undefined
             THEN /\ rPc' = "error"
                  /\ rError' = TypeError
                  /\ UNCHANGED <<rCombined, rBatches, rReqs, rId, rPosts, rReturn>>
             ELSE LET array == CHOOSE a \in results : TRUE
                      combined == rCombined \o SelectSeq(array, LAMBDA x : x # Undefined)
                  IN  /\ rCombined' = combined
                      /\ IF rBatches # <<>>
                         THEN /\ rReqs' = ReceiptRequests(Head(rBatches), rId)
                              /\ rId' = rId + Len(Head(rBatches))
                              /\ rBatches' = Tail(rBatches)
                              /\ rPosts' = Append(rPosts, rReqs')
                              /\ rPc' = "post"
                              /\ UNCHANGED <<rReturn, rError>>
                         ELSE /\ UNCHANGED <<rBatches, rReqs, rId, rPosts>>
                              /\ IF /\ Len(combined) > 0
                                    /\ \A k \in DOMAIN combined :
                                           ~ReceiptThrows(combined[k])
                                 THEN /\ rReturn' = Defined(ReduceByTransactionHash(
                                             [k \in DOMAIN combined |->
                                                 MapReceipt(combined[k])]))
                                      /\ rPc' = "done"
                                      /\ UNCHANGED rError
                                 ELSE /\ rPc' = "error"
                                      /\ rError' = IF Len(combined) > 0
                                                   THEN UnableToParseReceipt
                                                   ELSE UnableToParseReceipts
                                      /\ UNCHANGED rReturn
    /\ UNCHANGED <<notR, rCall, rNow>>

\* The blockNumberOrTag argument of getBlock: a bigint or a tag.
BlockNumberOrTag ==
    {[number |-> Defined(n), tag |-> Undefined] : n \in BlockNumbers}
    \cup {[number |-> Undefined, tag |-> Defined("latest")]}

\* The request object getBlock posts; blockNumberParam is the hexadecimal
\* string of a bigint and the tag as it is.
GetBlockRequest(blockNumberOrTag, isTransactionsPresent) ==
    [jsonrpc |-> "2.0",
     method |-> "eth_getBlockByNumber",
     params |-> [block |-> [hex |-> {HexString(n) : n \in blockNumberOrTag.number},
                            tag |-> blockNumberOrTag.tag],
                 full |-> isTransactionsPresent],
     id |-> 1]

\* The responses httpClient.post may resolve to for getBlock: nothing, or
\* what a node may answer for the block asked for, a tag standing for any
\* block of the chain.
GetBlockResponses(blockNumberOrTag) ==
    LET asked == IF blockNumberOrTag.number = Undefined THEN BlockNumbers
                 ELSE blockNumberOrTag.number
    IN  {Undefined} \cup
        {Defined([r EXCEPT !.id = NumberToString(1)]) :
            r \in UNION {BlockResponses(n) : n \in asked}}

\* EvmJsonRPCBlockRepository.getBlock is called: the parameter, the request
\* and httpClient.post.  isTransactionsPresent is false when left out.
repoGetBlock ==
    /\ rPc = "idle"
    /\ \E blockNumberOrTag \in BlockNumberOrTag, isTransactionsPresent \in BOOLEAN :
          /\ rCall' = [op |-> "getBlock",
                       arg |-> <<blockNumberOrTag, isTransactionsPresent>>]
          /\ rPosts' = Append(rPosts, GetBlockRequest(blockNumberOrTag,
                                                      isTransactionsPresent))
    /\ rPc' = "post"
    /\ UNCHANGED <<notR, rBatches, rReqs, rId, rCombined, rResults, rReturn,
                   rNow, rError>>

\* await httpClient.post resolves in getBlock: a result with hash, number and
\* timestamp is converted, anything else throws.  The transactions of the
\* result are handed on as they are and are left out here.
getBlockResponse ==
    /\ rPc = "post"
    /\ rCall.op = "getBlock"
    /\ \E response \in GetBlockResponses(rCall.arg[1]) :
          /\ rResults' = response
          /\ IF IsBlock(response)
             THEN LET result == (CHOOSE x \in response : TRUE).result
                  IN  /\ rReturn' = Defined(
                             [number |-> BigInt(CHOOSE x \in result.number : TRUE),
                              timestamp |-> BigInt(CHOOSE x \in result.timestamp : TRUE),
                              hash |-> result.hash])
                      /\ rPc' = "done"
                      /\ UNCHANGED rError
             ELSE /\ rPc' = "error"
                  /\ rError' = UnableToParseGetBlock
                  /\ UNCHANGED rReturn
    /\ UNCHANGED <<notR, rCall, rBatches, rReqs, rId, rPosts, rCombined, rNow>>

\* The configuration of the one chain of the model, cfg.chains[chain].
ChainCfg == [chainId |-> 2]

\* EvmJsonRPCBlockRepository.getCurrentChain
getCurrentChain == [chainId |-> ChainCfg.chainId]

\* The bounds a filter may have, the bounds of the example among them.
FilterBounds == {100, 200}

\* The filter argument of getFilteredLogs.
EvmLogFilters ==
    [fromBlock : FilterBounds, toBlock : FilterBounds,
     addresses : {<<"0xaa">>}, topics : {<<"t1">>}]

\* A value of a JSON document that is a number, and one that is a string
\* spelling a number.
JsonNumber(n) == [type |-> "number", radix |-> 10, digits |-> Digits(n, 10)]

JsonString(str) == [type |-> "string", radix |-> str.radix, digits |-> str.digits]

\* value.toString(): the decimal digits of a number, a string as it is.
toString(value) == [value EXCEPT !.type = "string"]

\* The blocks the logs of a response may claim to be of: the bounds and a
\* block past them.
LogBlocks == FilterBounds \cup {201}

\* The logs a node may put in its response, with or without blockNumber and
\* transactionIndex, the latter a number or a hexadecimal string.
UpstreamLogs ==
    [blockNumber : {Undefined} \cup {Defined(HexString(n)) : n \in LogBlocks},
     transactionIndex : {Undefined, Defined(JsonNumber(1)),
                         Defined(JsonString(HexString(1)))},
     address : {<<"0xaa">>}]

\* The responses httpClient.post may resolve to for getFilteredLogs:
\* nothing, a response with an error and no result, or one with up to
\* MaxLogs logs.
LogsResponses ==
    {Undefined, Defined([result |-> Undefined, error |-> Defined([code |-> 1])])}
    \cup {Defined([result |-> Defined(logs), error |-> Undefined]) :
            logs \in UNION {[1..k -> UpstreamLogs] : k \in 0..MaxLogs}}

\* parsedFilters of getFilteredLogs, with the bounds in decimal.
ParsedFilters_Decimal(logFilter) ==
    [topics |-> logFilter.topics,
     address |-> logFilter.addresses,
     fromBlock |-> NumberToString(logFilter.fromBlock),
     toBlock |-> NumberToString(logFilter.toBlock)]

\* parsedFilters of getFilteredLogs.
ParsedFilters(logFilter) ==
    [topics |-> logFilter.topics,
     address |-> logFilter.addresses,
     fromBlock |-> HexString(logFilter.fromBlock),
     toBlock |-> HexString(logFilter.toBlock)]

\* The request object getFilteredLogs posts.
GetLogsRequest(logFilter) ==
    [jsonrpc |-> "2.0",
     method |-> "eth_getLogs",
     params |-> <<ParsedFilters(logFilter)>>,
     id |-> 1]

\* EvmJsonRPCBlockRepository.getFilteredLogs is called: the parsed filter,
\* the request and httpClient.post.
getFilteredLogs ==
    /\ rPc = "idle"
    /\ \E logFilter \in EvmLogFilters :
          /\ rCall' = [op |-> "getFilteredLogs", arg |-> <<logFilter>>]
          /\ rPosts' = Append(rPosts, GetLogsRequest(logFilter))
    /\ rPc' = "post"
    /\ UNCHANGED <<notR, rBatches, rReqs, rId, rCombined, rResults, rReturn,
                   rNow, rError>>

\* The map callback of getFilteredLogs.
MapLog(log) ==
    [blockNumber |-> BigInt(CHOOSE x \in log.blockNumber : TRUE),
     transactionIndex |-> toString(CHOOSE x \in log.transactionIndex : TRUE),
     address |-> log.address,
     chainId |-> getCurrentChain.chainId]

\* BigInt(undefined) and undefined.toString() throw a TypeError.
MapLogThrows(log) ==
    log.blockNumber = Undefined \/ log.transactionIndex = Undefined

\* response?.result of getFilteredLogs: the logs, or nothing.
LogsOfResponse(response) ==
    UNION {x.result : x \in response}

\* await httpClient.post resolves in getFilteredLogs: the logs of the result
\* are mapped, and a response without result gives the empty array.
getFilteredLogsResponse ==
    /\ rPc = "post"
    /\ rCall.op = "getFilteredLogs"
    /\ \E response \in LogsResponses :
          /\ rResults' = response
          /\ IF LogsOfResponse(response) = Undefined
             THEN /\ rReturn' = Defined(<<>>)
                  /\ rPc' = "done"
                  /\ UNCHANGED rError
             ELSE LET logs == CHOOSE x \in LogsOfResponse(response) : TRUE
                  IN  IF \E k \in DOMAIN logs : MapLogThrows(logs[k])
                      THEN /\ rPc' = "error"
                           /\ rError' = TypeError
                           /\ UNCHANGED rReturn
                      ELSE /\ rReturn' = Defined([k \in DOMAIN logs |->
                                                     MapLog(logs[k])])
                           /\ rPc' = "done"
                           /\ UNCHANGED rError
    /\ UNCHANGED <<notR, rCall, rBatches, rReqs, rId, rPosts, rCombined, rNow>>

RNext ==
    \/ getBlocks
    \/ getBlocksResponse
    \/ repoGetTransactionReceipt
    \/ receiptsResponse
    \/ repoGetBlock
    \/ getBlockResponse
    \/ getFilteredLogs
    \/ getFilteredLogsResponse
    \/ postRejects

(***************************************************************************)
(* --------------------- Web3SolanaSlotRepository ------------------------ *)
(*                                                                         *)
(* getBlock, called by concurrent pollers.  The pool is the ProviderPool   *)
(* of @xlabs/rpc-pool: which provider get() hands out is its choice.  The  *)
(* providers are InstrumentedConnectionWrappers, whose getBlock and        *)
(* setProviderOffline are outside the sources at hand.                     *)
(***************************************************************************)
Pollers == 1..NumPollers

Providers == 1..NumProviders

NoProvider == 0

Slots == 1..MaxSlot

\* The finality argument: left out, a finality, or another commitment.
Finalities == {Undefined, Defined("finalized"), Defined("processed")}

\* Web3SolanaSlotRepository.normalizeFinality
normalizeFinality(finality) ==
    IF finality = Defined("finalized") \/ finality = Defined("confirmed")
    THEN finality ELSE Undefined

\* The block of a slot as provider.getBlock resolves to it, with two
\* transactions: one that carries its slot and a legacy message, one without
\* slot and with a versioned message.
SlotBlock(slot) ==
    [blockHeight |-> slot,
     transactions |->
         << [slot |-> Defined(slot + 1), version |-> "legacy",
             accountKeys |-> <<"k1">>, staticAccountKeys |-> <<>>],
            [slot |-> Undefined, version |-> "0",
             accountKeys |-> <<>>, staticAccountKeys |-> <<"k2">>] >>]

\* Web3SolanaSlotRepository.mapTx: slot is tx.slot || slot, the account keys
\* are those of the message version.
mapTx(tx, slot) ==
    [slot |-> IF tx.slot # Undefined /\ tx.slot # Defined(0)
              THEN CHOOSE x \in tx.slot : TRUE ELSE slot,
     accountKeys |-> IF tx.version = "legacy" THEN tx.accountKeys
                     ELSE tx.staticAccountKeys]

\* A promise that has not settled.
Pending ==
    [kind |-> "pending", block |-> Undefined, code |-> 0, message |-> ""]

\* What the promise of provider.getBlock settles with: a block, null, a
\* SolanaJSONRPCError (slot skipped, -32007) or another error.

Resolved(block) ==
    [kind |-> "resolved", block |-> block, code |-> 0, message |-> ""]

SolanaJSONRPCError(code, message) ==
    [kind |-> "SolanaJSONRPCError", block |-> Undefined, code |-> code,
     message |-> message]

Error(message) ==
    [kind |-> "Error", block |-> Undefined, code |-> 0, message |-> message]

ProviderOutcomes(slot) ==
    { Resolved(Defined(SlotBlock(slot))),
      Resolved(Undefined),
      SolanaJSONRPCError(-32007, "Slot was skipped"),
      Error("fetch failed") }

\* What the promise getBlock returns settles with: Fallible.ok(block),
\* Fallible.error(SolanaFailure(code, message)) or a rejection with an error.
FallibleOk(block) ==
    [kind |-> "ok", block |-> Defined(block), code |-> 0, message |-> ""]

FallibleError(code, message) ==
    [kind |-> "error", block |-> Undefined, code |-> code, message |-> message]

Rejected(err) ==
    [kind |-> "rejected", block |-> Undefined, code |-> err.code,
     message |-> err.message]

SInit ==
    /\ sPc = [c \in Pollers |-> "idle"]
    /\ sArgs = [c \in Pollers |-> [slot |-> 0, finality |-> Undefined]]
    /\ sProvider = [c \in Pollers |-> NoProvider]
    /\ sRequest = [c \in Pollers |-> [slot |-> 0, commitment |-> Undefined,
                                      maxSupportedTransactionVersion |-> 0]]
    /\ sOutcome = [c \in Pollers |-> Pending]
    /\ sReturn = [c \in Pollers |-> Pending]
    /\ sOffline = [p \in Providers |-> 0]

\* InstrumentedConnectionWrapper.setProviderOffline on provider p.
setProviderOffline(offline, p) == [offline EXCEPT ![p] = @ + 1]

\* Web3SolanaSlotRepository.getBlock is called: this.pool.get() and
\* provider.getBlock with the normalized finality as commitment.
solanaGetBlock(c) ==
    /\ sPc[c] = "idle"
    /\ \E slot \in Slots, finality \in Finalities, provider \in Providers :
          /\ sArgs' = [sArgs EXCEPT ![c] = [slot |-> slot, finality |-> finality]]
          /\ sProvider' = [sProvider EXCEPT ![c] = provider]
          /\ sRequest' = [sRequest EXCEPT ![c] =
                             [slot |-> slot,
                              commitment |-> normalizeFinality(finality),
                              maxSupportedTransactionVersion |-> 0]]
    /\ sPc' = [sPc EXCEPT ![c] = "getBlock"]
    /\ UNCHANGED <<notS, sOutcome, sReturn, sOffline>>

\* The then callback: a null block throws, a block is mapped into
\* Fallible.ok.  The outcome is what the promise handed to catch settles with.
Then(outcome, slot) ==
    IF outcome.kind # "resolved" THEN outcome
    ELSE IF outcome.block = Undefined
         THEN Error("Unable to parse result of getBlock")
         ELSE LET block == CHOOSE x \in outcome.block : TRUE
              IN  Resolved(Defined(
                      [blockHeight |-> block.blockHeight,
                       transactions |->
                           [k \in DOMAIN block.transactions |->
                               mapTx(block.transactions[k], slot)]]))

\* A catch callback that marks the provider offline for every error.
Catch_AlwaysOffline(promise) ==
    IF promise.kind = "resolved"
    THEN [offline |-> FALSE,
          return |-> FallibleOk(CHOOSE x \in promise.block : TRUE)]
    ELSE IF promise.kind = "SolanaJSONRPCError"
         THEN [offline |-> TRUE,
               return |-> FallibleError(promise.code, promise.message)]
         ELSE [offline |-> TRUE, return |-> Rejected(promise)]

\* The catch callback, which a resolved promise passes by: a
\* SolanaJSONRPCError becomes Fallible.error, any other error marks the
\* provider offline and is thrown again.
Catch(promise) ==
    IF promise.kind = "resolved"
    THEN [offline |-> FALSE,
          return |-> FallibleOk(CHOOSE x \in promise.block : TRUE)]
    ELSE IF promise.kind = "SolanaJSONRPCError"
         THEN [offline |-> FALSE,
               return |-> FallibleError(promise.code, promise.message)]
         ELSE [offline |-> TRUE, return |-> Rejected(promise)]

\* The promise of provider.getBlock settles and the callbacks run;
\* setProviderOffline is called on the provider the call holds.
solanaGetBlockSettles(c) ==
    /\ sPc[c] = "getBlock"
    /\ \E outcome \in ProviderOutcomes(sArgs[c].slot) :
          LET caught == Catch(Then(outcome, sArgs[c].slot))
          IN  /\ sOutcome' = [sOutcome EXCEPT ![c] = outcome]
              /\ sReturn' = [sReturn EXCEPT ![c] = caught.return]
              /\ sOffline' = IF caught.offline
                             THEN setProviderOffline(sOffline, sProvider[c])
                             ELSE sOffline
    /\ sPc' = [sPc EXCEPT ![c] = "done"]
    /\ UNCHANGED <<notS, sArgs, sProvider, sRequest>>

SNext ==
    \E c \in Pollers :
        \/ solanaGetBlock(c)
        \/ solanaGetBlockSettles(c)

vars == <<qVars, bVars, eVars, rVars, sVars>>

Init == QInit /\ BInit /\ EInit /\ RInit /\ SInit

Next == QNext

Spec == Init /\ [][Next]_vars

NextMisuse == QNextMisuse

SpecMisuse == Init /\ [][NextMisuse]_vars

\* The consumer and its workers with an owner that may call Close; the
\* clock stands still.
NextClose == Consume \/ SendOnClosed \/ Worker \/ Close

SpecClose == Init /\ [][NextClose]_vars

\* The consumer and its workers with a caller that may cancel the context;
\* the clock stands still.
NextCancel == Consume \/ Worker \/ Cancel

SpecCancel == Init /\ [][NextCancel]_vars

\* The consumer and its workers; the clock stands still.
NextLive == Consume \/ Worker

\* The goroutine of Consume is scheduled while it can take a step, and the
\* workers go on receiving from the channel and settling what they hold.
SpecLive == Init /\ [][NextLive]_vars /\ WF_vars(Consume) /\ WF_vars(Worker)

InitBreaker == QIdle /\ BInit /\ EInit /\ RInit /\ SInit

SpecBreaker == InitBreaker /\ [][BNext]_vars

InitExecute == QIdle /\ BInit /\ EInit /\ RInit /\ SInit

SpecExecute == InitExecute /\ [][ENext]_vars

InitRepository == QIdle /\ BInit /\ EInit /\ RInit /\ SInit

SpecRepository == InitRepository /\ [][RNext]_vars

InitSolana == QIdle /\ BInit /\ EInit /\ RInit /\ SInit

SpecSolana == InitSolana /\ [][SNext]_vars

(***************************************************************************)
(* Properties of the queue consumer.                                       *)
(***************************************************************************)

\* The messages of the batch the goroutine has forwarded (q.wg.Add(1) done).
AllForwarded == {calls[k].msg : k \in 1..Len(calls)}

\* The messages on their way to the workers, oldest first.
Pipeline == ch \o (IF sending = NoMsg THEN <<>> ELSE <<sending>>)

\* The forwarded messages no worker has settled.
Outstanding == held \cup Range(Pipeline)

\* The goroutine handles messages[idx]: the loop moves on, or reaches the
\* send.
LoopStep == pc = "loop" /\ (idx' # idx \/ pc' = "send")

\* A worker calls Done() on the k-th forwarded message.
DoneCalled(k) ==
    /\ Len(calls') = Len(calls)
    /\ calls'[k].done = calls[k].done + 1

\* A worker calls Failed() on the k-th forwarded message.
FailedCalled(k) ==
    /\ Len(calls') = Len(calls)
    /\ calls'[k].failed = calls[k].failed + 1

\* The order of two forwarded messages: by batch, then by position.
Before(i, j) ==
    \/ BatchOf(i) < BatchOf(j)
    \/ BatchOf(i) = BatchOf(j) /\ PosOf(i) < PosOf(j)

\* C1: GetMessages is only called with the in-flight counter at zero and no
\* forwarded message unsettled, and the unsettled messages all belong to the
\* batch of the last GetMessages.
C1_BatchBarrier ==
    /\ [](\A i \in Outstanding : BatchOf(i) = nFetch)
    /\ [][nFetch' # nFetch => wg = 0 /\ Outstanding = {}]_vars

\* C1 witness: a second batch has been fetched after a message of the first
\* was forwarded and settled.
C1_Witness ==
    /\ nFetch = 2
    /\ pc = "loop"
    /\ idx = 1
    /\ metrics.unfiltered >= 1
    /\ wg = 0

\* C2: a message the filter rejects is deleted with its receipt handle, is
\* never sent and never added to the in-flight counter, whether or not the
\* DeleteMessage call fails.
C2_FilteredNotForwarded ==
    /\ [](\A i \in AllForwarded \cup Outstanding : ~filterConsume(i.data))
    /\ [][(LoopStep /\ Decodes(messages[idx]) /\ filterConsume(messages[idx]))
          => /\ delCalls' = [delCalls EXCEPT ![Handle(nFetch, idx)] = @ + 1]
             /\ ch' = ch
             /\ sending' = sending
             /\ wg' = wg
             /\ calls' = calls]_vars

\* C2 witness: a rejected message whose DeleteMessage failed; it is still in
\* the queue and was not forwarded.
C2_Witness ==
    \E j \in 1..Len(messages) :
        /\ j < idx
        /\ filterConsume(messages[j])
        /\ Handle(nFetch, j) \in srcQueue
        /\ delCalls[Handle(nFetch, j)] = 1
        /\ \A i \in AllForwarded : i.id # Handle(nFetch, j)

\* C3: Done() issues one DeleteMessage for the receipt handle and decrements
\* the counter by one; Failed() decrements the counter by one, issues no
\* DeleteMessage and leaves the queue as it is.
C3_DoneFailedEffects ==
    [][\A k \in 1..Len(calls) :
          /\ DoneCalled(k) =>
                /\ delCalls' = [delCalls EXCEPT ![calls[k].msg.id] = @ + 1]
                /\ srcQueue' \in {srcQueue, srcQueue \ {calls[k].msg.id}}
                /\ wg' = wg - 1
          /\ FailedCalled(k) =>
                /\ delCalls' = delCalls
                /\ srcQueue' = srcQueue
                /\ wg' = wg - 1]_vars

\* C3 witness: one message was settled by Done(), another by Failed(), and
\* the failed one is still in the queue with no DeleteMessage issued.
C3_Witness ==
    \E k, l \in 1..Len(calls) :
        /\ calls[k].done = 1
        /\ delCalls[calls[k].msg.id] = 1
        /\ calls[l].failed = 1
        /\ calls[l].done = 0
        /\ delCalls[calls[l].msg.id] = 0
        /\ calls[l].msg.id \in srcQueue

\* C4 as claimed: whatever calls workers make, each message is released at
\* most once and the counter never drops below zero.
C4_Original ==
    /\ \A k \in 1..Len(calls) : calls[k].done + calls[k].failed <= 1
    /\ wg >= 0

\* C4: every Done() and Failed() call releases the counter once, with no
\* guard against a repeated call; as long as no message has been settled
\* more than once the counter is the number of unsettled messages, hence
\* never below zero.
C4_ReleasePerCall ==
    /\ [](~misused => wg = Cardinality(Outstanding) /\ pc # "panic")
    /\ [](wg < 0 => misused /\ pc = "panic")
    /\ [][\A k \in 1..Len(calls) :
             /\ (DoneCalled(k) \/ FailedCalled(k)) => wg' = wg - 1
             /\ DoneCalled(k) =>
                   delCalls'[calls[k].msg.id] = delCalls[calls[k].msg.id] + 1
         ]_vars

\* C4 witness: a message was settled twice and the counter went negative.
C4_Witness ==
    /\ pc = "panic"
    /\ wg < 0
    /\ \E k \in 1..Len(calls) : calls[k].done + calls[k].failed = 2

\* C5: the channel never buffers more than chSize messages, a message being
\* sent leaves the goroutine only by entering the channel when it has room,
\* and messages reach the workers in batch order.
C5_BoundedOrderedChannel ==
    /\ [](Len(ch) <= chSize)
    /\ [](chSize \in WithChannelSize \cup {DefaultChSize})
    /\ [](\A a, b \in 1..Len(Pipeline) :
             a < b => Before(Pipeline[a], Pipeline[b]))
    /\ [](\A h \in held \cup settled :
             \A a \in 1..Len(Pipeline) : Before(h, Pipeline[a]))
    /\ [][sending # NoMsg =>
             \/ /\ sending' = sending
                /\ (ch' = ch \/ (ch # <<>> /\ ch' = Tail(ch)))
             \/ /\ Len(ch) < chSize
                /\ sending' = NoMsg
                /\ ch' = Append(ch, sending)]_vars

\* C5 witness: the goroutine is blocked sending the second message of a
\* batch on a full channel.
C5_Witness ==
    /\ pc = "send"
    /\ ch # <<>>
    /\ Len(ch) = chSize
    /\ BatchOf(sending) = BatchOf(ch[Len(ch)])
    /\ PosOf(sending) > PosOf(ch[Len(ch)])

\* C6: every message of a batch carries the expiry fetch time + visibility
\* timeout, IsExpired() holds exactly when the clock is past it, and
\* sending, Done() and Failed() do not depend on it.
C6_SharedExpiry ==
    /\ \A i \in AllForwarded \cup Outstanding :
          /\ i.expiredAt = fetchedAt + VisibilityTimeout
          /\ IsExpired(i) <=> now > fetchedAt + VisibilityTimeout
    /\ \A i, j \in AllForwarded \cup Outstanding :
          BatchOf(i) = BatchOf(j) => i.expiredAt = j.expiredAt
    /\ (pc = "send" /\ Len(ch) < chSize) => ENABLED Send
    /\ \A i \in held : ENABLED Done(i) /\ ENABLED Failed(i)

\* C6 witness: two messages of one batch were forwarded, one while already
\* expired, and a worker settled a message that had expired.
C6_Witness ==
    /\ \E k \in 1..Len(calls) :
          calls[k].late /\ calls[k].done + calls[k].failed = 1
    /\ sending # NoMsg
    /\ IsExpired(sending)
    /\ Len(calls) >= 2

\* C7: a DeleteMessage failure inside Done() still decrements the counter,
\* leaves the message in the queue and stops nothing: the drained barrier
\* lets the goroutine fetch again.
C7_DeleteFailureNonFatal ==
    /\ [][\A k \in 1..Len(calls) :
             (DoneCalled(k) /\ calls[k].msg.id \in srcQueue') =>
                /\ wg' = wg - 1
                /\ srcQueue' = srcQueue
                /\ pc' = pc]_vars
    /\ []((pc = "wait" /\ wg = 0) => ENABLED Wait)
    /\ []((pc = "get" /\ nFetch < MaxFetches) => ENABLED GetMessages)

\* C7 witness: the batch has drained after a Done() whose DeleteMessage
\* failed; the message is still in the queue and the barrier is open.
C7_Witness ==
    /\ pc = "wait"
    /\ wg = 0
    /\ nFetch < MaxFetches
    /\ \E k \in 1..Len(calls) :
          /\ calls[k].done = 1
          /\ calls[k].failed = 0
          /\ calls[k].msg.id \in srcQueue

MetricNames == {"consumed", "unfiltered"}

\* C8 as claimed: a rejected message increments a counter of its own by one.
C8_Original ==
    [][(LoopStep /\ Decodes(messages[idx]) /\ filterConsume(messages[idx]))
       => \E c \in MetricNames \ {"consumed"} :
             metrics'[c] = metrics[c] + 1]_vars

\* C8: the consumer counts consumed and unfiltered messages only: a decoded
\* message increments consumed by one, an accepted one also increments
\* unfiltered by one, a rejected one increments nothing else, and a message
\* that does not decode increments nothing.
C8_ConsumedUnfiltered ==
    /\ [][LoopStep =>
            LET b == messages[idx] IN
            /\ ~Decodes(b) => metrics' = metrics
            /\ (Decodes(b) /\ filterConsume(b)) =>
                  metrics' = [metrics EXCEPT !.consumed = @ + 1]
            /\ (Decodes(b) /\ ~filterConsume(b)) =>
                  metrics' = [consumed |-> metrics.consumed + 1,
                              unfiltered |-> metrics.unfiltered + 1]]_vars
    /\ [][~LoopStep => metrics' = metrics]_vars
    /\ [](DOMAIN metrics = MetricNames)

\* C8 witness: a message has just been rejected after another was accepted.
C8_Witness ==
    /\ idx > 1
    /\ idx - 1 <= Len(messages)
    /\ filterConsume(messages[idx - 1])
    /\ metrics.unfiltered >= 1
    /\ metrics.consumed > metrics.unfiltered

(***************************************************************************)
(* Properties of the rate-limited decorator.                               *)
(***************************************************************************)
\* An open breaker that has not cooled down yet.
FailingFast == bState = "open" /\ ~CooledDown

\* The step lets some call into the delegate.
ReachesDelegate ==
    \/ bInvoked' # bInvoked
    \/ \E c \in Callers : bInflight[c] = NoOperation /\ bInflight'[c] # NoOperation

\* The step ends a call of caller c that never entered the delegate.
EndsOutside(c) ==
    /\ bInflight[c] = NoOperation
    /\ bInflight'[c] = NoOperation
    /\ bOutcome'[c] # bOutcome[c]

\* C9: an operation of the rate-limited decorator reaches the delegate only
\* through the breaker.  The breaker is closed exactly while fewer than the
\* configured number of consecutive delegate failures have been counted;
\* while it is open and has not cooled down no call reaches the delegate and
\* a call ends with the breaker-open error; an open breaker is left only
\* after the cool-down, by one trial call that reaches the delegate, and no
\* other call reaches the delegate while the trial is in flight; the trial's
\* success closes the breaker and its failure opens it again.
C9_CircuitBreaker ==
    /\ [](bState = "closed" <=> bFailures < Threshold)
    /\ [](bState = "halfOpen" <=>
              (bTrial # NoCaller /\ bInflight[bTrial] # NoOperation))
    /\ [][FailingFast =>
              /\ ~ReachesDelegate
              /\ \A c \in Callers :
                     EndsOutside(c) => bOutcome'[c] = "breakerOpen"]_vars
    /\ [][(bState = "open" /\ bState' # "open") =>
              /\ CooledDown
              /\ bState' = "halfOpen"
              /\ bInvoked' = bInvoked + 1]_vars
    /\ [][bState = "halfOpen" => ~ReachesDelegate]_vars
    /\ [][(bState = "halfOpen" /\ bInflight'[bTrial] = NoOperation) =>
              \/ bOutcome'[bTrial] = "ok" /\ bState' = "closed"
              \/ bOutcome'[bTrial] = "error" /\ bState' = "open"
                                             /\ bOpenedAt' = bNow]_vars

\* The breaker has opened, has failed a call fast, and after the cool-down
\* its trial call is inside the delegate.
C9_Witness ==
    /\ bState = "halfOpen"
    /\ \E c \in Callers : bOutcome[c] = "breakerOpen" /\ bInflight[c] = NoOperation

(***************************************************************************)
(* Properties of GetEvmTransactions.execute.                               *)
(***************************************************************************)
InvalidRange == eRange.fromBlock > eRange.toBlock

\* C10: execute with fromBlock > toBlock returns the empty list, makes no
\* call of blockRepo (neither getBlock nor getTransactionReceipt) and does
\* not reject.
C10_InvalidRangeEmpty ==
    (ePc # "idle" /\ InvalidRange) =>
        /\ ePc = "done"
        /\ eResult = <<>>
        /\ eCalls = <<>>

\* execute has returned from a call with fromBlock > toBlock.
C10_Witness == ePc = "done" /\ InvalidRange

\* The step in which the receipts of a block arrive and execute goes on.
ReceiptStep == ePc = "getTransactionReceipt" /\ ePc' \in {"getBlock", "done"}

\* The transactions the step pushes onto populatedTransactions.
Pushed == SubSeq(eResult', Len(eResult) + 1, Len(eResult'))

\* Some log of the sequence logs has a topic of the configured topic list.
HasConfiguredTopic(logs) ==
    \E k \in DOMAIN logs : \E configured \in eOpts.topics :
        \E topics \in logs[k].topics :
            Range(topics) \cap Range(configured) # {}

\* The logs of the receipt of the transaction with hash h.
LogsOf(receipts, h) == IF h \in DOMAIN receipts THEN receipts[h].logs ELSE <<>>

\* C11: a transaction that passed the address filter is pushed onto the
\* result exactly when some log of its receipt has a configured topic, and
\* nothing else is ever pushed: every transaction of the result passes the
\* address filter and carries a log with a configured topic.
C11_TopicFilter ==
    /\ [][ReceiptStep =>
              /\ eResult = SubSeq(eResult', 1, Len(eResult))
              /\ \A k \in DOMAIN eByAddress :
                     HasConfiguredTopic(LogsOf(eReceipts', eByAddress[k].hash))
                     <=> \E j \in DOMAIN Pushed :
                             /\ Pushed[j].hash = eByAddress[k].hash
                             /\ Pushed[j].logs = eReceipts'[eByAddress[k].hash].logs
              /\ \A j \in DOMAIN Pushed :
                     \E k \in DOMAIN eByAddress :
                         Pushed[j].hash = eByAddress[k].hash]_vars
    /\ [][(~ReceiptStep /\ ePc # "idle") => eResult' = eResult]_vars
    /\ [](\A j \in DOMAIN eResult :
              /\ ByAddressConfigured(eOpts, eResult[j])
              /\ HasConfiguredTopic(eResult[j].logs))

\* C11 witness: of two transactions of a block that passed the address
\* filter, execute has returned the one with a configured topic only.
C11_Witness ==
    /\ ePc = "done"
    /\ eRange.fromBlock = eRange.toBlock
    /\ Len(eByAddress) = 2
    /\ Len(eResult) = 1
    /\ DOMAIN eReceipts = {"hA", "hB"}

\* Two addresses that are equal when letter case is ignored.
SameIgnoringCase(a, b) == toLowerCase(Defined(a)) = toLowerCase(Defined(b))

\* The to or the from address of the transaction equals some configured
\* address, letter case ignored.
MatchesConfigured(transaction) ==
    \E configured \in eOpts.addresses : \E c \in Range(configured) :
        \E a \in transaction.to \cup transaction.from : SameIgnoringCase(a, c)

\* The transactions of the block getBlock returned.
BlockTransactions(evmBlock) ==
    IF evmBlock.transactions = Undefined THEN {}
    ELSE Range(CHOOSE t \in evmBlock.transactions : TRUE)

\* The step in which a block arrives and execute goes on.
BlockStep == ePc = "getBlock" /\ ePc' # "error"

\* C12 as claimed: a transaction of a block passes the address filter
\* exactly when its to or from address equals a configured address with
\* letter case ignored on both sides, and receipts are asked for the
\* transactions that passed only.
C12_CaseInsensitiveAddress ==
    /\ [][BlockStep =>
              \A t \in BlockTransactions(eEvmBlock') :
                  t \in Range(eByAddress') <=> MatchesConfigured(t)]_vars
    /\ [](\A k \in DOMAIN eCalls :
              eCalls[k].op = "getTransactionReceipt" =>
                  \A h \in eCalls[k].arg :
                      \E t \in Range(ChainTransactions) :
                          t.hash = h /\ MatchesConfigured(t))

\* execute has returned from a valid range with no call rejected.
Finished == ePc = "done" /\ ~InvalidRange /\ ~eFailed

IsGetBlock(call) == call.op = "getBlock"

\* The getBlock calls made so far, in order.
BlockCalls == SelectSeq(eCalls, IsGetBlock)

\* The hashes of the transactions of the block that pass the address filter.
PassedHashes(evmBlock) ==
    {t.hash : t \in {u \in BlockTransactions(evmBlock) :
                        ByAddressConfigured(eOpts, u)}}

\* C13: for fromBlock <= toBlock and no failure, getBlock is called once per
\* block number of the range, ascending, one call per step, each with
\* includeTransactions = true; after the getBlock of a block,
\* getTransactionReceipt is called once with all the hashes that passed the
\* address filter when there are any, and not at all otherwise; the result
\* is in ascending block order (a block's timestamp is its number here).
C13_CallSequence ==
    /\ [](Finished =>
              /\ Len(BlockCalls) = eRange.toBlock - eRange.fromBlock + 1
              /\ \A k \in DOMAIN BlockCalls :
                     /\ BlockCalls[k].block = eRange.fromBlock + k - 1
                     /\ BlockCalls[k].arg = TRUE)
    /\ [](\A k \in DOMAIN eCalls :
              eCalls[k].op = "getTransactionReceipt" =>
                  /\ k > 1
                  /\ eCalls[k - 1].op = "getBlock"
                  /\ eCalls[k - 1].block = eCalls[k].block
                  /\ eCalls[k].arg # {})
    /\ [][Len(eCalls') <= Len(eCalls) + 1]_vars
    /\ [][BlockStep =>
              IF PassedHashes(eEvmBlock') # {}
              THEN ePc' = "getTransactionReceipt"
              ELSE ePc' \in {"getBlock", "done"}]_vars
    /\ [][ePc = "getTransactionReceipt" =>
              eCalls' = Append(eCalls, [op |-> "getTransactionReceipt",
                                        block |-> eBlock,
                                        arg |-> PassedHashes(eEvmBlock)])]_vars
    /\ [](\A i, j \in DOMAIN eResult :
              i < j => eResult[i].timestamp <= eResult[j].timestamp)

\* C13 witness: execute has returned from a range of several blocks, having
\* fetched receipts for some block and none for another, with transactions
\* of two blocks in its result.
C13_Witness ==
    /\ Finished
    /\ eRange.fromBlock < eRange.toBlock
    /\ Len(eCalls) = Len(BlockCalls) + 1
    /\ eResult # <<>>

\* C14: once a getBlock or getTransactionReceipt call has rejected, execute
\* has rejected: it returns nothing, not even the transactions collected
\* from earlier blocks, and takes no further step, so no later block is
\* fetched.
C14_ErrorPropagates ==
    eFailed =>
        /\ ePc = "error"
        /\ Returned = Undefined
        /\ ~ENABLED ENext

\* C14 witness: a call has rejected after transactions of an earlier block
\* had been collected, with a later block of the range still unfetched.
C14_Witness ==
    /\ eFailed
    /\ eResult # <<>>
    /\ eBlock < eRange.toBlock

(***************************************************************************)
(* Properties of EvmJsonRPCBlockRepository.                                *)
(***************************************************************************)
\* getBlocks has been called with n block numbers.
BlocksCalled(n) == rCall.op = "getBlocks" /\ Len(rCall.arg) = n

\* getBlocks is over: it has returned or thrown.
BlocksOver == rCall.op = "getBlocks" /\ rPc \in {"done", "error"}

\* The response array httpClient.post resolved to; empty when it is missing.
ResponseArray == IF rResults = Undefined THEN <<>> ELSE CHOOSE a \in rResults : TRUE

\* C15: getBlocks with an empty set of block numbers makes no network call
\* and returns the empty mapping.
C15_EmptyBlocks ==
    BlocksCalled(0) =>
        /\ rPc = "done"
        /\ rPosts = <<>>
        /\ rReturn = Defined(<<>>)

\* C15 witness: getBlocks has returned from a call with no block number.
C15_Witness == BlocksCalled(0) /\ rPc = "done"

\* The decimal spelling of a block number of two digits.
Decimal(n) == [radix |-> 10, digits |-> <<n \div 10, n % 10>>]

\* Every requested block has its well-formed response in the array, and the
\* array holds nothing else.
AllWellFormed ==
    /\ Len(ResponseArray) = Len(rCall.arg)
    /\ \A n \in Range(rCall.arg) :
           \E k \in DOMAIN ResponseArray : ResponseArray[k] = Defined(WellFormed(n))

\* The mapping of the blocks numbered in the set S, keyed by hash.
BlocksByHash(S) ==
    [h \in {BlockHash(n) : n \in S} |->
        LET n == CHOOSE m \in S : BlockHash(m) = h
        IN  [hash |-> h, number |-> n, timestamp |-> BlockTimestamp(n)]]

\* C16: getBlocks over N >= 1 block numbers makes one network call, with
\* one request per number whose id spells the number; when every requested
\* block gets a well-formed response, in whatever order, the call returns
\* the N blocks keyed by their hashes.
C16_BatchedById ==
    /\ (rCall.op = "getBlocks" /\ rCall.arg # <<>>) =>
           /\ Len(rPosts) = 1
           /\ Len(rPosts[1]) = Len(rCall.arg)
           /\ \A k \in DOMAIN rCall.arg :
                  /\ rPosts[1][k].id = Decimal(rCall.arg[k])
                  /\ rPosts[1][k].method = "eth_getBlockByNumber"
                  /\ BigInt(rPosts[1][k].params.block) = rCall.arg[k]
    /\ (BlocksOver /\ rCall.arg # <<>> /\ AllWellFormed) =>
           /\ rPc = "done"
           /\ rReturn = Defined(BlocksByHash(Range(rCall.arg)))
           /\ \A m \in rReturn : Cardinality(DOMAIN m) = Len(rCall.arg)

\* C16 witness: getBlocks has returned from well-formed responses that came
\* in another order than the requests.
C16_Witness ==
    /\ BlocksOver
    /\ Len(rCall.arg) > 1
    /\ AllWellFormed
    /\ ResponseArray[1] = Defined(WellFormed(rCall.arg[2]))

\* A response whose result is null or whose error code is 6969.
DegradedCase(response) ==
    \E r \in response :
        r.result.kind = "null" \/ \E e \in r.error : e.code = UnavailableCode

\* A response with a block whose hash, number and timestamp are present.
CompleteBlock(response) ==
    \E r \in response :
        /\ r.result.kind = "object"
        /\ r.result.hash # <<>>
        /\ r.result.number # Undefined
        /\ r.result.timestamp # Undefined

\* The array holds a response that is neither degraded nor a complete block.
SomeMalformed ==
    \E k \in DOMAIN ResponseArray :
        ~DegradedCase(ResponseArray[k]) /\ ~CompleteBlock(ResponseArray[k])

\* The block numbers the responses of the array answer.
RequestedBy(response) == {BigInt(r.id) : r \in response}

\* C17 as claimed: a response with a null result or the error code 6969
\* does not make getBlocks fail; the mapping returned holds, for each such
\* response, a degraded block with empty hash, the requested number and the
\* current time, next to the blocks of the other responses.
C17_DegradedBlock ==
    (BlocksOver /\ ResponseArray # <<>> /\ ~SomeMalformed) =>
        /\ rPc = "done"
        /\ \A m \in rReturn : \A k \in DOMAIN ResponseArray :
               IF DegradedCase(ResponseArray[k])
               THEN \E h \in DOMAIN m :
                       /\ m[h].hash = <<>>
                       /\ m[h].number \in RequestedBy(ResponseArray[k])
                       /\ m[h].timestamp = rNow
               ELSE \E h \in DOMAIN m :
                       m[h].number \in RequestedBy(ResponseArray[k])

\* C18: a response that is neither degraded nor a complete block makes
\* getBlocks throw and return nothing, whatever the other responses are;
\* so does an empty or a missing response array.
C18_MalformedThrows ==
    (BlocksOver /\ rCall.arg # <<>> /\ (ResponseArray = <<>> \/ SomeMalformed)) =>
        /\ rPc = "error"
        /\ rReturn = Undefined

\* C18 witness: getBlocks has thrown on an array that holds a well-formed
\* response and a malformed one.
C18_Witness ==
    /\ BlocksOver
    /\ rPc = "error"
    /\ SomeMalformed
    /\ \E k \in DOMAIN ResponseArray : CompleteBlock(ResponseArray[k])
                                       /\ ~DegradedCase(ResponseArray[k])

\* getTransactionReceipt has been called with at least one hash.
ReceiptsCalled == rCall.op = "getTransactionReceipt" /\ rCall.arg # <<>>

\* The requests of all the network calls made so far: call and position.
Sent == UNION {{<<k, j>> : j \in DOMAIN rPosts[k]} : k \in DOMAIN rPosts}

RequestAt(c) == rPosts[c[1]][c[2]]

\* ceil(n / 10)
CeilTenth(n) == (n + 9) \div 10

\* C19: for n >= 1 hashes getTransactionReceipt makes ceil(n/10) network
\* calls when none fails and never more; every call carries at most 10
\* requests and every call but the last exactly 10; no hash is in two
\* requests and, once the call has returned, each is in one; request ids are
\* unique across the calls; the mapping returned holds the receipts pushed
\* from all the batches, each under its transaction hash.
C19_ReceiptBatches ==
    ReceiptsCalled =>
        /\ Len(rPosts) <= CeilTenth(Len(rCall.arg))
        /\ rPc = "done" => Len(rPosts) = CeilTenth(Len(rCall.arg))
        /\ \A k \in DOMAIN rPosts :
               /\ Len(rPosts[k]) \in 1..10
               /\ k < Len(rPosts) => Len(rPosts[k]) = 10
        /\ \A c, d \in Sent :
               (RequestAt(c).params = RequestAt(d).params
                \/ RequestAt(c).id = RequestAt(d).id) => c = d
        /\ \A c \in Sent : RequestAt(c).params[1] \in Range(rCall.arg)
        /\ rPc = "done" =>
               /\ \A h \in Range(rCall.arg) :
                      \E c \in Sent : RequestAt(c).params = <<h>>
               /\ \A m \in rReturn :
                      /\ DOMAIN m =
                            {MapReceipt(rCombined[k]).transactionHash :
                                k \in DOMAIN rCombined}
                      /\ \A h \in DOMAIN m : m[h].transactionHash = h
                      /\ Len(rCombined) = Len(rCall.arg) =>
                             DOMAIN m = Range(rCall.arg)

\* C19 witness: getTransactionReceipt has returned the receipts of 25 hashes
\* from three network calls of 10, 10 and 5 requests.
C19_Witness ==
    /\ ReceiptsCalled
    /\ rPc = "done"
    /\ Len(rCall.arg) = 25
    /\ Len(rPosts) = 3
    /\ Len(rPosts[3]) = 5
    /\ \A m \in rReturn : Cardinality(DOMAIN m) = 25

\* C20 as claimed: getTransactionReceipt fails whenever a response of a
\* batch cannot be parsed, so a mapping it returns holds the receipt of
\* every requested hash.
C20_NoReceiptDropped ==
    (ReceiptsCalled /\ rPc = "done") =>
        \A m \in rReturn : DOMAIN m = Range(rCall.arg)

\* The response last received is one the call cannot parse: for getBlocks a
\* missing or empty array or an element the map callback throws for, for
\* getBlock a result without hash, number or timestamp, for
\* getTransactionReceipt a missing array or an element that is not null and
\* has no status or no transactionHash.
Unparseable ==
    \/ /\ rCall.op = "getBlocks"
       /\ \A array \in rResults : Len(array) = 0 \/ MapThrows(array)
    \/ /\ rCall.op = "getBlock"
       /\ ~IsBlock(rResults)
    \/ /\ rCall.op = "getTransactionReceipt"
       /\ \A array \in rResults :
              \E k \in DOMAIN array : array[k] # Undefined /\ ReceiptThrows(array[k])

\* httpClient.post resolves in this step.
Responds == rPc = "post" /\ rError' # HttpClientError

\* C21: a protocol error is propagated immediately and never retried: in the
\* step in which getBlocks, getBlock or getTransactionReceipt receives a
\* response it cannot parse, the call fails and posts nothing more; in
\* particular getTransactionReceipt posts no later batch.
C21_NoCallAfterUnparseable ==
    [][(Responds /\ Unparseable') => (rPc' = "error" /\ rPosts' = rPosts)]_vars

LogsCalled == rCall.op = "getFilteredLogs"

LogsOver == LogsCalled /\ rPc = "done"

\* The logs of the response getFilteredLogs received, none when the
\* response has no result.
UpstreamResult ==
    IF LogsOfResponse(rResults) = Undefined THEN <<>>
    ELSE CHOOSE x \in LogsOfResponse(rResults) : TRUE

ReturnedLogs == CHOOSE x \in rReturn : TRUE

\* C22: getFilteredLogs posts exactly one request, an eth_getLogs whose
\* fromBlock and toBlock spell the bounds of the filter in hexadecimal (100
\* as 0x64, 200 as 0xc8); when it returns, a response without result has
\* given the empty list, and otherwise each log of the result has given one
\* returned log, with blockNumber the integer the node spelt,
\* transactionIndex a string of the same digits and chainId the configured
\* id of the chain.
C22_FilteredLogs ==
    LogsCalled =>
        /\ Len(rPosts) = 1
        /\ rPosts[1].method = "eth_getLogs"
        /\ Len(rPosts[1].params) = 1
        /\ LET parsed == rPosts[1].params[1]
               logFilter == rCall.arg[1]
           IN  /\ parsed.fromBlock.radix = 16
               /\ parsed.toBlock.radix = 16
               /\ DigitsValue(parsed.fromBlock.digits, 16) = logFilter.fromBlock
               /\ DigitsValue(parsed.toBlock.digits, 16) = logFilter.toBlock
               /\ logFilter.fromBlock = 100 => parsed.fromBlock.digits = <<6, 4>>
               /\ logFilter.toBlock = 200 => parsed.toBlock.digits = <<12, 8>>
        /\ rPc = "done" =>
               /\ rReturn # Undefined
               /\ Len(ReturnedLogs) = Len(UpstreamResult)
               /\ \A k \in DOMAIN ReturnedLogs :
                      LET log == UpstreamResult[k]
                          index == CHOOSE x \in log.transactionIndex : TRUE
                      IN  /\ ReturnedLogs[k].blockNumber \in Nat
                          /\ Defined(HexString(ReturnedLogs[k].blockNumber)) = log.blockNumber
                          /\ ReturnedLogs[k].transactionIndex.type = "string"
                          /\ ReturnedLogs[k].transactionIndex.digits = index.digits
                          /\ ReturnedLogs[k].chainId = ChainCfg.chainId

\* getFilteredLogs has returned the two logs of a response to the filter of
\* blocks 100 to 200, one of them with a number as its transactionIndex.
C22_Witness ==
    /\ LogsOver
    /\ rCall.arg[1].fromBlock = 100
    /\ rCall.arg[1].toBlock = 200
    /\ Len(ReturnedLogs) = 2
    /\ \E k \in DOMAIN UpstreamResult :
           \E index \in UpstreamResult[k].transactionIndex : index.type = "number"

\* C23: every log getFilteredLogs returns has a blockNumber within the
\* bounds of the filter, whatever logs the response of the node holds.
C23_LogsWithinRange ==
    LogsOver =>
        \A k \in DOMAIN ReturnedLogs :
            /\ rCall.arg[1].fromBlock <= ReturnedLogs[k].blockNumber
            /\ ReturnedLogs[k].blockNumber <= rCall.arg[1].toBlock

\* The positions of the degraded responses in the array.
DegradedAt == {k \in DOMAIN ResponseArray : DegradedCase(ResponseArray[k])}

LastDegraded == CHOOSE k \in DegradedAt : \A j \in DegradedAt : j <= k

\* C28: getBlocks stores every degraded block under the empty hash: when it
\* returns from an array with degraded responses, the mapping holds one
\* degraded block, that of the last degraded response of the array, and with
\* two or more degraded responses it has fewer entries than blocks were
\* requested; no count is checked, as the call returns whenever the array is
\* not empty and each response is degraded or a complete block.
C28_DegradedCollide ==
    /\ (rCall.op = "getBlocks" /\ rPc = "done" /\ DegradedAt # {}) =>
           \A m \in rReturn :
               /\ <<>> \in DOMAIN m
               /\ m[<<>>].number \in RequestedBy(ResponseArray[LastDegraded])
               /\ \A h \in DOMAIN m : m[h].hash = <<>> => h = <<>>
               /\ Cardinality(DegradedAt) >= 2 =>
                      Cardinality(DOMAIN m) < Len(rCall.arg)
    /\ (BlocksOver /\ ResponseArray # <<>> /\ ~SomeMalformed) => rPc = "done"

\* C28 witness: getBlocks has returned one entry for two requested blocks
\* whose responses were both degraded.
C28_Witness ==
    /\ rCall.op = "getBlocks"
    /\ rPc = "done"
    /\ Len(rCall.arg) = 2
    /\ Cardinality(DegradedAt) = 2
    /\ RequestedBy(ResponseArray[1]) # RequestedBy(ResponseArray[2])
    /\ \A m \in rReturn : Cardinality(DOMAIN m) = 1

\* getTransactionReceipt is over after every batch was answered with an
\* array, and no element of any of the arrays was kept: each was null.
AllNull ==
    /\ ReceiptsCalled
    /\ rPc \in {"done", "error"}
    /\ rBatches = <<>>
    /\ rError \notin {HttpClientError, TypeError}
    /\ rCombined = <<>>

\* getTransactionReceipt has been called with an empty set of hashes.
NoHashes == rCall.op = "getTransactionReceipt" /\ rCall.arg = <<>>

\* C29: getTransactionReceipt with no hashes posts nothing and throws the
\* error of its last line instead of returning an empty mapping; it throws
\* the same error when no batch had an element that is not null.
C29_EmptyReceipts ==
    /\ NoHashes =>
           /\ rPc = "error"
           /\ rPosts = <<>>
           /\ rReturn = Undefined
           /\ rError = UnableToParseReceipts
    /\ AllNull =>
           /\ rPc = "error"
           /\ rReturn = Undefined
           /\ rError = UnableToParseReceipts

\* C29 witness: getTransactionReceipt has thrown on a call with no hashes.
C29_Witness == NoHashes /\ rPc = "error" /\ rPosts = <<>>

(***************************************************************************)
(* Further properties of the queue consumer.                               *)
(***************************************************************************)

\* The goroutine of Consume is working on a batch GetMessages returned.
InBatch == pc \in {"loop", "send", "wait"}

\* C24: liveness of the batch barrier: when GetMessages has returned a batch
\* and the workers go on receiving from the channel and call Done() or
\* Failed() once on each message they receive, the goroutine eventually
\* is back at its call of GetMessages, whether the batch holds more accepted
\* messages than the channel has room for or no accepted message at all.
C24_BarrierLiveness == InBatch ~> (pc = "get")

\* C24 witness: the goroutine is back at GetMessages after a first batch
\* with more accepted messages than the channel has room for.
C24_Witness ==
    /\ pc = "get"
    /\ nFetch = 1
    /\ metrics.unfiltered > chSize

\* C25: Close() closes the channel and synchronizes with nothing: it can be
\* called in every state, whatever the goroutine of Consume is doing and
\* however many messages are in flight, it changes neither the position of
\* the goroutine nor the in-flight counter, and a send the goroutine makes
\* once the channel is closed panics.
C25_CloseUnsynchronized ==
    /\ []((~closed /\ pc # "panic") => ENABLED Close)
    /\ [][(~closed /\ closed') => UNCHANGED <<pc, wg, ch, sending, held, messages, idx>>]_vars
    /\ [][(closed /\ pc = "send" /\ pc' # pc) => pc' = "panic"]_vars

\* C25 witness: after Close() the goroutine has sent an accepted message on
\* the closed channel and panicked, with that message still counted in
\* flight.
C25_Witness == closed /\ pc = "panic" /\ sending # NoMsg /\ wg > 0

\* The positions of the for loop of the goroutine of Consume.
LoopPositions == {"get", "loop", "send", "wait"}

\* C26: the goroutine of Consume has no terminating path: it is always at a
\* position of its loop; when GetMessages returns an error it is back at
\* the call of GetMessages at once, with nothing forwarded and the in-flight
\* counter unchanged; and cancelling the context moves it nowhere, the next
\* call of GetMessages being made as before.
C26_NoTerminatingPath ==
    /\ [](pc \in LoopPositions)
    /\ [][GetMessagesError =>
            (pc' = "get" /\ UNCHANGED <<ch, sending, wg, calls, held, metrics>>)]_vars
    /\ [][(cancelled = {} /\ cancelled' # {}) => UNCHANGED pc]_vars
    /\ []((cancelled # {} /\ pc = "get" /\ nFetch < MaxFetches) =>
            (ENABLED GetMessages /\ ENABLED GetMessagesError))

\* C26 witness: the goroutine is in the range loop over the batch of its
\* second call of GetMessages, the first having brought no message; the
\* context was cancelled before the first.
C26_Witness ==
    /\ pc = "loop"
    /\ cancelled = {0}
    /\ nFetch = 2
    /\ queueRest + Len(messages) = MaxBatch
    /\ metrics.consumed = 0

\* C27: a message whose envelope or whose inner VaaEvent does not decode is
\* skipped: no DeleteMessage is called and the queue keeps it, nothing is
\* sent, the in-flight counter and both metrics stay as they are, and the
\* loop goes on with the next message of the batch, or with q.wg.Wait()
\* after the last.
C27_DecodeFailureSkipped ==
    [][(LoopStep /\ ~Decodes(messages[idx]))
       => /\ srcQueue' = srcQueue
          /\ delCalls' = delCalls
          /\ ch' = ch
          /\ sending' = sending
          /\ calls' = calls
          /\ wg' = wg
          /\ metrics' = metrics
          /\ messages' = messages
          /\ idx' = idx + 1
          /\ pc' = IF idx < Len(messages) THEN "loop" ELSE "wait"]_vars

\* C27 witness: the first message of the batch did not decode and is still
\* in the queue with no DeleteMessage call; the second one was accepted and
\* is being sent, the only message counted as consumed.
C27_Witness ==
    /\ pc = "send"
    /\ idx = 2
    /\ nFetch = 1
    /\ ~Decodes(messages[1])
    /\ Handle(nFetch, 1) \in srcQueue
    /\ delCalls[Handle(nFetch, 1)] = 0
    /\ metrics = [consumed |-> 1, unfiltered |-> 1]
    /\ wg = 1

(***************************************************************************)
(* Properties of Web3SolanaSlotRepository.getBlock.                        *)
(***************************************************************************)

\* The call of poller c is over.
SlotCallOver(c) == sPc[c] = "done"

\* The provider answered the call of poller c with a null block or raised an
\* error that is no SolanaJSONRPCError.
ProviderFailed(c) ==
    \/ sOutcome[c].kind = "resolved" /\ sOutcome[c].block = Undefined
    \/ sOutcome[c].kind = "Error"

\* The calls that are over, held provider p and found it failing.
FailedOn(p) ==
    {c \in Pollers : SlotCallOver(c) /\ sProvider[c] = p /\ ProviderFailed(c)}

\* C30: a getBlock whose provider raised a SolanaJSONRPCError returns
\* Fallible.error with the code and the message of the error; one whose
\* provider returned a null block or raised another error rejects with the
\* error; one whose provider returned a block returns Fallible.ok.  Each
\* provider has been marked offline once for each call that held it and
\* ended the second way, and for no other call.
C30_SolanaGetBlock ==
    /\ \A c \in Pollers :
           SlotCallOver(c) =>
               /\ sOutcome[c].kind = "SolanaJSONRPCError" =>
                      /\ sReturn[c].kind = "error"
                      /\ sReturn[c].code = sOutcome[c].code
                      /\ sReturn[c].message = sOutcome[c].message
               /\ ProviderFailed(c) =>
                      /\ sReturn[c].kind = "rejected"
                      /\ sOutcome[c].kind = "Error" =>
                             sReturn[c].message = sOutcome[c].message
               /\ (sOutcome[c].kind = "resolved" /\ sOutcome[c].block # Undefined) =>
                      sReturn[c].kind = "ok"
    /\ \A p \in Providers : sOffline[p] = Cardinality(FailedOn(p))

\* C30 witness: of two calls that are over, one held a provider that
\* returned a null block, which is marked offline once, and the other held
\* another provider that raised a SolanaJSONRPCError, which is not marked.
C30_Witness ==
    \E c, d \in Pollers :
        /\ SlotCallOver(c)
        /\ SlotCallOver(d)
        /\ sProvider[c] # sProvider[d]
        /\ sOutcome[c] = Resolved(Undefined)
        /\ sOutcome[d].kind = "SolanaJSONRPCError"
        /\ sOffline[sProvider[c]] = 1
        /\ sOffline[sProvider[d]] = 0

====
